---- MODULE Spec2Model ----
(***************************************************************************)
(* Inline image generation extension (src/index.js): the orchestration     *)
(* core.  A message text is a sequence of tokens (plain text, TAGGED image *)
(* elements, LEGACY bracket markers, completion and error markers); error  *)
(* texts and model identifiers are sequences of characters so that the     *)
(* substring tests of the code are computed, not assumed.                  *)
(***************************************************************************)
EXTENDS Naturals, Integers, Sequences, FiniteSets, TLC

VARIABLES settings, processingMessages, chat, files, pass, changes, scan, refs,
          getSettingsCalls, logBuffer, clock, defaultNpcs, imageConfig

vars == <<settings, processingMessages, chat, files, pass, changes, scan, refs,
          getSettingsCalls, logBuffer, clock, defaultNpcs, imageConfig>>

\* the calls of getSettings counted, the log and the clock of its stamps,
\* the object defaultSettings.npcReferenceImages, the imageConfig of the
\* request of the multimodal-chat adapter
moduleState == <<getSettingsCalls, logBuffer, clock, defaultNpcs, imageConfig>>

----------------------------------------------------------------------------
(* Bounds of the exploration *)

NumMsgs == 2
MaxPasses == 2
MaxRetriesBound == 2
MaxSettingChanges == 1

MsgIds == 0 .. (NumMsgs - 1)
PassIds == 1 .. MaxPasses

----------------------------------------------------------------------------
(* Character sequences *)

Min(a, b) == IF a <= b THEN a ELSE b

\* String.prototype.includes on character sequences
Includes(s, sub) ==
    \E i \in 0 .. (Len(s) - Len(sub)) : SubSeq(s, i + 1, i + Len(sub)) = sub

\* String.prototype.substring(0, n)
Substring0(s, n) == SubSeq(s, 1, Min(n, Len(s)))

\* String.prototype.toLowerCase on the letters that occur in model identifiers
ToLowerChar(c) ==
    LET Upper == <<"A", "B", "N", "P">>
        Lower == <<"a", "b", "n", "p">>
    IN  IF \E k \in 1 .. Len(Upper) : Upper[k] = c
        THEN Lower[CHOOSE k \in 1 .. Len(Upper) : Upper[k] = c]
        ELSE c

ToLowerCase(s) == [k \in 1 .. Len(s) |-> ToLowerChar(s[k])]

DigitChar == <<"0", "1", "2", "3", "4", "5", "6", "7", "8", "9">>

\* template substitution of a three-digit HTTP status
StatusText(n) ==
    <<DigitChar[(n \div 100) + 1], DigitChar[((n \div 10) % 10) + 1], DigitChar[(n % 10) + 1]>>

Pow2(k) == IF k = 0 THEN 1 ELSE IF k = 1 THEN 2 ELSE IF k = 2 THEN 4 ELSE IF k = 3 THEN 8 ELSE 16

----------------------------------------------------------------------------
(* Texts of the source *)

UndefIndexOf == <<"C", "a", "n", "n", "o", "t", " ", "r", "e", "a", "d", " ", "p", "r", "o", "p", "e", "r", "t", "i", "e", "s", " ", "o", "f", " ", "u", "n", "d", "e", "f", "i", "n", "e", "d", " ", "(", "r", "e", "a", "d", "i", "n", "g", " ", "'", "i", "n", "d", "e", "x", "O", "f", "'", ")">>
NanoBanana == <<"n", "a", "n", "o", "-", "b", "a", "n", "a", "n", "a">>

\* the six substrings of the retry classification
RetryMarkers ==
    << <<"4", "2", "9">>, <<"5", "0", "3">>, <<"5", "0", "2">>, <<"5", "0", "4">>,
       <<"t", "i", "m", "e", "o", "u", "t">>, <<"n", "e", "t", "w", "o", "r", "k">> >>

\* the texts of validateSettings, rendered letter for letter in ASCII
\* (one ASCII letter per Cyrillic letter, so lengths and separators are kept)
ErrEndpoint == <<"U", "R", "L", " ", "E", "n", "d", "p", "o", "i", "n", "t", "a", " ", "n", "e", " ", "n", "a", "s", "t", "r", "o", "e", "n">>
ErrApiKey == <<"A", "P", "I", " ", "k", "l", "U", "q", " ", "n", "e", " ", "n", "a", "s", "t", "r", "o", "e", "n">>
ErrModel == <<"M", "o", "d", "e", "l", "J", " ", "n", "e", " ", "v", "Y", "b", "r", "a", "n", "a">>

----------------------------------------------------------------------------
(* Inputs: what the environment can send *)

ModelDallE == <<"d", "a", "l", "l", "-", "e", "-", "3">>
ModelNano == <<"N", "a", "n", "o", "-", "B", "a", "n", "a", "n", "a", "-", "P", "r", "o">>
SomeUrl == <<"h">>
SomeKey == <<"k">>

\* a backend reply: status 0 is a fetch() rejection, shape is what a 2xx body holds
\*   inline    : image data where the adapter looks for it
\*   url       : a URL where the adapter looks for it
\*   emptylist : data: [] / candidates: [] / no data_url
\*   noimage   : data: [{}] / candidate parts without inline data / data_url: ''
Reply(st, body, shape) == [status |-> st, text |-> body, shape |-> shape]

AllReplies ==
    {Reply(200, <<>>, sh) : sh \in {"inline", "url", "emptylist", "noimage"}}
    \cup {Reply(st, <<>>, "none") : st \in {429, 500, 502, 503, 504}}
    \cup {Reply(400, b, "none") : b \in
            {<<"q", "u", "o", "t", "a", " ", "e", "x", "c", "e", "e", "d", "e", "d">>,
             <<"t", "r", "a", "c", "e", " ", "i", "d", " ", "1", "5", "0", "4", "2">>,
             <<"g", "a", "t", "e", "w", "a", "y", " ", "t", "i", "m", "e", "o", "u", "t">>,
             <<"n", "e", "t", "w", "o", "r", "k", " ", "u", "n", "r", "e", "a", "c", "h", "a", "b", "l", "e">>}}
    \cup {Reply(0, <<"F", "a", "i", "l", "e", "d", " ", "t", "o", " ", "f", "e", "t", "c", "h">>, "none")}

----------------------------------------------------------------------------
(* Message tokens *)

Src(t, n) == [t |-> t, n |-> n]
SrcNone == Src("none", 0)          \* no quoted src attribute in the element
SrcGen == Src("gen", 0)            \* src="[IMG:GEN]"
SrcError == Src("error", 0)        \* src=ERROR_IMAGE_PATH
SrcFile(n) == Src("file", n)       \* src="/user/images/iig_<n>"

Tok(k, src, id, msg) == [k |-> k, src |-> src, id |-> id, msg |-> msg]
TextTok(id) == Tok("text", SrcNone, id, <<>>)
ImgTok(src, id) == Tok("img", src, id, <<>>)            \* <img data-iig-instruction='{..id..}' src=..>
LegacyTok(id) == Tok("legacy", SrcNone, id, <<>>)       \* [IMG:GEN:{..id..}]

\* String.prototype.replace(string, string): the first occurrence only
ReplaceFirst(mes, old, new) ==
    IF \E i \in 1 .. Len(mes) : mes[i] = old
    THEN LET j == CHOOSE i \in 1 .. Len(mes) :
                      /\ mes[i] = old
                      /\ \A h \in 1 .. (i - 1) : mes[h] # old
         IN  [mes EXCEPT ![j] = new]
    ELSE mes

\* fullMatch.replace(/src\s*=\s*(['"])[^'"]*\1/i, `src="${value}"`)
ReplaceSrc(tok, src) ==
    IF tok.k = "img" /\ tok.src.t # "none" THEN [tok EXCEPT !.src = src] ELSE tok

IsErrorMarker(tok) ==
    \/ tok.k = "errmark"
    \/ tok.k = "img" /\ tok.src = SrcError


----------------------------------------------------------------------------
(* Configuration *)

defaultSettings ==
    [enabled |-> TRUE, apiType |-> "openai", endpoint |-> <<>>, apiKey |-> <<>>,
     model |-> <<>>, maxRetries |-> 0, retryDelay |-> 1000]

isGeminiModel(modelId) == Includes(ToLowerCase(modelId), NanoBanana)

\* Array.prototype.join(', ')
RECURSIVE Join(_)
Join(errors) ==
    IF Len(errors) = 0 THEN <<>>
    ELSE IF Len(errors) = 1 THEN errors[1]
    ELSE errors[1] \o <<",", " ">> \o Join(Tail(errors))

\* variant: only the first missing field is reported
validateSettingsFirstOnly(s) ==
    IF s.endpoint = <<>> THEN <<ErrEndpoint>>
    ELSE IF s.apiKey = <<>> THEN <<ErrApiKey>>
    ELSE IF s.apiType # "naistera" /\ s.model = <<>> THEN <<ErrModel>>
    ELSE <<>>

\* the errors array of validateSettings; the call throws iff it is not empty
validateSettings(s) ==
    (IF s.endpoint = <<>> THEN <<ErrEndpoint>> ELSE <<>>)
    \o (IF s.apiKey = <<>> THEN <<ErrApiKey>> ELSE <<>>)
    \o (IF s.apiType # "naistera" /\ s.model = <<>> THEN <<ErrModel>> ELSE <<>>)

----------------------------------------------------------------------------
(* Backend adapters: the result of one call for one reply *)

Return(payload) == [throws |-> FALSE, err |-> <<>>, payload |-> payload]
Throw(msg) == [throws |-> TRUE, err |-> msg, payload |-> "none"]

\* fetch() rejected, or !response.ok
HttpFailure(r) ==
    IF r.status = 0 THEN Throw(r.text)
    ELSE Throw(<<"A", "P", "I", " ", "E", "r", "r", "o", "r", " ", "(">>
               \o StatusText(r.status) \o <<")", ":", " ">> \o r.text)

ResponseOk(r) == r.status \in 200 .. 299

generateImageOpenAI(r) ==
    IF ~ResponseOk(r) THEN HttpFailure(r)
    ELSE IF r.shape = "emptylist" THEN Throw(<<"N", "o", " ", "i", "m", "a", "g", "e", " ", "d", "a", "t", "a", " ", "i", "n", " ", "r", "e", "s", "p", "o", "n", "s", "e">>)
    ELSE IF r.shape = "inline" THEN Return("data")
    ELSE IF r.shape = "url" THEN Return("url")
    ELSE Return("undef")                     \* data: [{}]: imageObj.url is undefined

generateImageGemini(r) ==
    IF ~ResponseOk(r) THEN HttpFailure(r)
    ELSE IF r.shape = "emptylist" THEN Throw(<<"N", "o", " ", "c", "a", "n", "d", "i", "d", "a", "t", "e", "s", " ", "i", "n", " ", "r", "e", "s", "p", "o", "n", "s", "e">>)
    ELSE IF r.shape = "inline" THEN Return("data")
    ELSE Throw(<<"N", "o", " ", "i", "m", "a", "g", "e", " ", "f", "o", "u", "n", "d", " ", "i", "n", " ", "G", "e", "m", "i", "n", "i", " ", "r", "e", "s", "p", "o", "n", "s", "e">>)

generateImageNaistera(r) ==
    IF ~ResponseOk(r) THEN HttpFailure(r)
    ELSE IF r.shape \in {"emptylist", "noimage"} THEN Throw(<<"N", "o", " ", "d", "a", "t", "a", "_", "u", "r", "l", " ", "i", "n", " ", "r", "e", "s", "p", "o", "n", "s", "e">>)
    ELSE IF r.shape = "inline" THEN Return("data")
    ELSE Return("url")

\* variant: the model identifier is compared as written
SelectAdapterCaseSensitive(s) ==
    IF s.apiType = "naistera" THEN "naistera"
    ELSE IF s.apiType = "gemini" \/ Includes(s.model, NanoBanana) THEN "gemini"
    ELSE "openai"

\* the adapter chosen at the head of an attempt, from the live settings
SelectAdapter(s) ==
    IF s.apiType = "naistera" THEN "naistera"
    ELSE IF s.apiType = "gemini" \/ isGeminiModel(s.model) THEN "gemini"
    ELSE "openai"

AdapterResult(adapter, r) ==
    IF adapter = "naistera" THEN generateImageNaistera(r)
    ELSE IF adapter = "gemini" THEN generateImageGemini(r)
    ELSE generateImageOpenAI(r)

----------------------------------------------------------------------------
(* generateImageWithRetry: one call, as the state of one directive's job *)

NoJob ==
    [tpc |-> "wait", maxRetries |-> 0, baseDelay |-> 0, attempt |-> 0,
     attempts |-> 0, sleeps |-> <<>>, collected |-> FALSE, adapter |-> "none",
     payload |-> "none", err |-> <<>>, thrown |-> "none", gen |-> "none",
     lastShape |-> "none", outcome |-> "none",
     built |-> [referenceImages |-> FALSE, referenceDataUrls |-> FALSE],
     cfg |-> [apiType |-> "unset", endpoint |-> <<>>, apiKey |-> <<>>, model |-> <<>>]]

\* variant: 504 is not in the list
isRetryableWithout504(msg) ==
    \E k \in 1 .. Len(RetryMarkers) :
        RetryMarkers[k] # <<"5", "0", "4">> /\ Includes(msg, RetryMarkers[k])

isRetryable(msg) == \E k \in 1 .. Len(RetryMarkers) : Includes(msg, RetryMarkers[k])

\* validateSettings(); read maxRetries and retryDelay; await collectReferenceImages
\* (cfg records the settings the call was made under)
GenStart(s) ==
    LET called == [NoJob EXCEPT !.cfg = [apiType |-> s.apiType, endpoint |-> s.endpoint,
                                         apiKey |-> s.apiKey, model |-> s.model]]
    IN  IF validateSettings(s) # <<>>
        THEN [called EXCEPT !.tpc = "threw", !.thrown = "error", !.gen = "config",
                            !.err = <<"O", "w", "i", "b", "k", "a", " ", "n", "a", "s", "t", "r", "o", "e", "k", ":", " ">> \o Join(validateSettings(s))]
        ELSE [called EXCEPT !.tpc = "collect", !.maxRetries = s.maxRetries,
                            !.baseDelay = s.retryDelay]

\* head of the for loop: attempt <= maxRetries sends a request, else throw lastError
LoopHead(job, s) ==
    IF job.attempt <= job.maxRetries
    THEN [job EXCEPT !.tpc = "attempt", !.attempts = @ + 1, !.adapter = SelectAdapter(s)]
    ELSE [job EXCEPT !.tpc = "threw",
                     !.thrown = IF job.attempts = 0 THEN "undefined" ELSE "error",
                     !.gen = "raised"]

\* variant: the delay does not grow with the attempt
OnReplyConstantDelay(job, r) ==
    LET res == AdapterResult(job.adapter, r) IN
    IF ~res.throws
    THEN [job EXCEPT !.tpc = "saving", !.payload = res.payload, !.gen = "returned",
                     !.lastShape = r.shape]
    ELSE IF ~isRetryable(res.err) \/ job.attempt = job.maxRetries
    THEN [job EXCEPT !.tpc = "threw", !.thrown = "error", !.gen = "raised",
                     !.err = res.err, !.lastShape = r.shape]
    ELSE [job EXCEPT !.tpc = "sleep", !.err = res.err, !.lastShape = r.shape,
                     !.sleeps = Append(@, job.baseDelay)]

\* the reply of the attempt in flight: return, break and throw, or sleep
OnReply(job, r) ==
    LET res == AdapterResult(job.adapter, r) IN
    IF ~res.throws
    THEN [job EXCEPT !.tpc = "saving", !.payload = res.payload, !.gen = "returned",
                     !.lastShape = r.shape]
    ELSE IF ~isRetryable(res.err) \/ job.attempt = job.maxRetries
    THEN [job EXCEPT !.tpc = "threw", !.thrown = "error", !.gen = "raised",
                     !.err = res.err, !.lastShape = r.shape]
    ELSE [job EXCEPT !.tpc = "sleep", !.err = res.err, !.lastShape = r.shape,
                     !.sleeps = Append(@, job.baseDelay * Pow2(job.attempt))]

\* saveImageToFile(undefined) throws before its first await
SaveStart(job) ==
    IF job.tpc = "saving" /\ job.payload = "undef"
    THEN [job EXCEPT !.tpc = "threw", !.thrown = "error", !.err = UndefIndexOf]
    ELSE job

----------------------------------------------------------------------------
(* Scanner, at the level of tokens *)

Tag(tok, i, new) == [fullMatch |-> tok, index |-> i, isNewFormat |-> new]

\* the needsGeneration decision for one TAGGED element; fs is the set of
\* files for which the HEAD request of checkFileExists answers ok
NeedsGeneration(tok, checkExistence, forceAll, fs) ==
    LET hasMarker == tok.src.t = "gen"
        hasErrorImage == tok.src.t = "error"
        hasPath == tok.src.t = "file"
        noSrc == tok.src.t \in {"none", "empty"}
    IN  IF hasErrorImage /\ ~forceAll THEN FALSE
        ELSE IF forceAll THEN TRUE
        ELSE IF hasMarker \/ noSrc THEN TRUE
        ELSE IF hasPath /\ checkExistence THEN tok.src.n \notin fs
        ELSE FALSE

\* TAGGED directives first, then LEGACY ones, each in source order
parseImageTags(mes, checkExistence, forceAll, fs) ==
    LET IsTagged(i) == mes[i].k = "img" /\ NeedsGeneration(mes[i], checkExistence, forceAll, fs)
        IsLegacy(i) == mes[i].k = "legacy"
        ti == SelectSeq([i \in 1 .. Len(mes) |-> i], IsTagged)
        li == SelectSeq([i \in 1 .. Len(mes) |-> i], IsLegacy)
    IN  [k \in 1 .. Len(ti) |-> Tag(mes[ti[k]], ti[k], TRUE)]
        \o [k \in 1 .. Len(li) |-> Tag(mes[li[k]], li[k], FALSE)]

----------------------------------------------------------------------------
(* Message patcher *)

\* the name saveImageToFile stores for directive i of pass p
FileId(p, i) == p * 10 + i

PatchSuccess(mes, tag, n) ==
    IF tag.isNewFormat
    THEN ReplaceFirst(mes, tag.fullMatch, ReplaceSrc(tag.fullMatch, SrcFile(n)))
    ELSE ReplaceFirst(mes, tag.fullMatch, Tok("done", SrcFile(n), 0, <<>>))

PatchError(mes, tag, msg) ==
    IF tag.isNewFormat
    THEN ReplaceFirst(mes, tag.fullMatch, ReplaceSrc(tag.fullMatch, SrcError))
    ELSE ReplaceFirst(mes, tag.fullMatch,
                      Tok("errmark", SrcNone, 0, Substring0(msg, 50)))

\* the update of regenerateMessageImages: always the src substitution
PatchRegen(mes, tag, n) ==
    ReplaceFirst(mes, tag.fullMatch, ReplaceSrc(tag.fullMatch, SrcFile(n)))

----------------------------------------------------------------------------
(* Passes: one invocation of processMessageTags or regenerateMessageImages *)

NoPass ==
    [kind |-> "none", mid |-> 0, pc |-> "idle", result |-> "none", tags |-> <<>>,
     jobs |-> <<>>, saved |-> 0, marked |-> FALSE, overlap |-> FALSE]

Active(ps) == ps.pc \in {"scanning", "running", "saving"}

Finished(ps, res) == [ps EXCEPT !.pc = "done", !.result = res]

\* the catch block of processTag, applied to the jobs that threw at dispatch,
\* in dispatch order
RECURSIVE CatchAll(_, _, _, _)
CatchAll(mes, tags, jobs, i) ==
    IF i > Len(tags) THEN mes
    ELSE IF jobs[i].tpc = "threw" /\ jobs[i].thrown = "error"
    THEN CatchAll(PatchError(mes, tags[i], jobs[i].err), tags, jobs, i + 1)
    ELSE CatchAll(mes, tags, jobs, i + 1)

\* what the catch block of processTag leaves of a job that threw
Caught(job) ==
    IF job.tpc # "threw" THEN job
    ELSE IF job.thrown = "undefined"
    THEN [job EXCEPT !.tpc = "rejected", !.outcome = "uncaught"]   \* error.message of undefined
    ELSE [job EXCEPT !.tpc = "resolved", !.outcome = "error"]

\* await Promise.all(...); await context.saveChat(); finally delete
\* gives the pass record and whether the marker is deleted now
JoinBatch(ps) ==
    IF ps.pc # "running" THEN ps
    ELSE IF \E i \in 1 .. Len(ps.jobs) : ps.jobs[i].tpc = "rejected"
    THEN Finished(ps, "rejected")
    ELSE IF \A i \in 1 .. Len(ps.jobs) : ps.jobs[i].tpc = "resolved"
    THEN [ps EXCEPT !.pc = "saving", !.saved = @ + 1]
    ELSE ps

\* the for loop of regenerateMessageImages from index i up to its next await
\* (dom: an img[data-iig-instruction] element is in the rendered message)
RECURSIVE RegenLoop(_, _, _, _)
RegenLoop(jobs, i, s, dom) ==
    IF i > Len(jobs) THEN jobs
    ELSE IF ~dom
    THEN RegenLoop([jobs EXCEPT ![i] = [@ EXCEPT !.tpc = "resolved", !.outcome = "skipped"]], i + 1, s, dom)
    ELSE IF GenStart(s).tpc = "threw"
    THEN RegenLoop([jobs EXCEPT ![i] = [GenStart(s) EXCEPT !.tpc = "resolved", !.outcome = "error"]], i + 1, s, dom)
    ELSE [jobs EXCEPT ![i] = GenStart(s)]

\* after the loop: processingMessages.delete(messageId); await context.saveChat()
RegenAfterLoop(ps) ==
    IF ps.pc = "running" /\ \A i \in 1 .. Len(ps.jobs) : ps.jobs[i].tpc = "resolved"
    THEN [ps EXCEPT !.pc = "saving", !.saved = @ + 1]
    ELSE ps

----------------------------------------------------------------------------
(* Actions *)

\* pass slots are used in order
SlotFree(p) ==
    /\ pass[p].pc = "idle"
    /\ \A q \in PassIds : q < p => pass[q].pc # "idle"

\* processMessageTags up to its first await (the scan)
ProcessStart(p, mid) ==
    /\ SlotFree(p)
    /\ LET base == [NoPass EXCEPT !.kind = "process", !.mid = mid,
                       !.overlap = \E q \in PassIds :
                                       /\ q # p
                                       /\ pass[q].kind = "process"
                                       /\ pass[q].mid = mid
                                       /\ Active(pass[q])]
       IN  pass' = [pass EXCEPT ![p] =
               IF ~settings.enabled THEN Finished(base, "disabled")
               ELSE IF mid \in processingMessages THEN Finished(base, "dropped")
               ELSE IF mid \notin MsgIds \/ chat[mid].is_user THEN Finished(base, "nomessage")
               ELSE [base EXCEPT !.pc = "scanning",
                                 !.tags = parseImageTags(chat[mid].mes, TRUE, FALSE, files)]]
    /\ UNCHANGED <<settings, processingMessages, chat, files, changes, scan, refs, moduleState>>

\* processMessageTags from the end of the scan to its next await:
\* add the marker, find the message element, dispatch every processTag
ProcessScanDone(p, elem) ==
    /\ pass[p].kind = "process"
    /\ pass[p].pc = "scanning"
    /\ LET ps == pass[p]
           mid == ps.mid
           jobs == [i \in 1 .. Len(ps.tags) |-> GenStart(settings)]
           run == JoinBatch([ps EXCEPT !.pc = "running", !.marked = TRUE,
                                       !.jobs = [i \in 1 .. Len(ps.tags) |-> Caught(jobs[i])]])
       IN  IF ps.tags = <<>>
           THEN /\ pass' = [pass EXCEPT ![p] = Finished(ps, "notags")]
                /\ UNCHANGED <<processingMessages, chat>>
           ELSE IF ~elem
           THEN /\ pass' = [pass EXCEPT ![p] = Finished([ps EXCEPT !.marked = TRUE], "noelement")]
                /\ processingMessages' = processingMessages \ {mid}
                /\ UNCHANGED chat
           ELSE /\ pass' = [pass EXCEPT ![p] = run]
                /\ processingMessages' = processingMessages \cup {mid}
                /\ chat' = [chat EXCEPT ![mid].mes = CatchAll(@, ps.tags, jobs, 1)]
    /\ UNCHANGED <<settings, files, changes, scan, refs, moduleState>>

\* regenerateMessageImages up to its first await (the scan)
RegenStart(p, mid) ==
    /\ SlotFree(p)
    /\ LET base == [NoPass EXCEPT !.kind = "regen", !.mid = mid] IN
       pass' = [pass EXCEPT ![p] =
           IF mid \notin MsgIds THEN Finished(base, "nomessage")
           ELSE [base EXCEPT !.pc = "scanning",
                             !.tags = parseImageTags(chat[mid].mes, FALSE, TRUE, files)]]
    /\ UNCHANGED <<settings, processingMessages, chat, files, changes, scan, refs, moduleState>>

\* regenerateMessageImages from the end of the scan to its next await
RegenScanDone(p, elem, dom) ==
    /\ pass[p].kind = "regen"
    /\ pass[p].pc = "scanning"
    /\ LET ps == pass[p]
           mid == ps.mid
           jobs == RegenLoop([i \in 1 .. Len(ps.tags) |-> NoJob], 1, settings, dom)
           run == RegenAfterLoop([ps EXCEPT !.pc = "running", !.marked = TRUE, !.jobs = jobs])
       IN  IF ps.tags = <<>>
           THEN /\ pass' = [pass EXCEPT ![p] = Finished(ps, "notags")]
                /\ UNCHANGED processingMessages
           ELSE IF ~elem
           THEN /\ pass' = [pass EXCEPT ![p] = Finished([ps EXCEPT !.marked = TRUE], "noelement")]
                /\ processingMessages' = processingMessages \ {mid}
           ELSE /\ pass' = [pass EXCEPT ![p] = run]
                /\ processingMessages' =
                       IF run.pc = "saving" THEN processingMessages \ {mid}
                       ELSE processingMessages \cup {mid}
    /\ UNCHANGED <<settings, chat, files, changes, scan, refs, moduleState>>

\* the continuation of directive i of pass p once its job has moved to `job`:
\* processTag patches and joins the batch; the regenerate loop patches on
\* success only, logs on failure and goes on with the next directive
Continue(p, i, job, dom) ==
    LET ps == pass[p]
        mid == ps.mid
        tag == ps.tags[i]
        mes == chat[mid].mes
        stored == job.tpc = "stored"
        threw == job.tpc = "threw"
    IN  IF ps.kind = "process"
        THEN LET job1 == IF stored THEN [job EXCEPT !.tpc = "resolved", !.outcome = "ok"]
                         ELSE Caught(job)
                 ps1 == JoinBatch([ps EXCEPT !.jobs[i] = job1])
             IN  /\ pass' = [pass EXCEPT ![p] = ps1]
                 /\ chat' = [chat EXCEPT ![mid].mes =
                        IF stored THEN PatchSuccess(mes, tag, FileId(p, i))
                        ELSE IF threw /\ job.thrown = "error" THEN PatchError(mes, tag, job.err)
                        ELSE mes]
                 /\ processingMessages' =
                        IF ps.pc = "running" /\ ps1.pc = "done"
                        THEN processingMessages \ {mid}
                        ELSE processingMessages
        ELSE IF threw /\ job.thrown = "undefined"
        THEN /\ pass' = [pass EXCEPT ![p] =
                    Finished([ps EXCEPT !.jobs[i] = [job EXCEPT !.tpc = "rejected", !.outcome = "uncaught"]],
                             "rejected")]
             /\ UNCHANGED <<chat, processingMessages>>
        ELSE IF stored \/ threw
        THEN LET job1 == [job EXCEPT !.tpc = "resolved",
                                     !.outcome = IF stored THEN "ok" ELSE "error"]
                 jobs1 == RegenLoop([ps.jobs EXCEPT ![i] = job1], i + 1, settings, dom)
                 ps1 == RegenAfterLoop([ps EXCEPT !.jobs = jobs1])
             IN  /\ pass' = [pass EXCEPT ![p] = ps1]
                 /\ chat' = [chat EXCEPT ![mid].mes =
                        IF stored THEN PatchRegen(mes, tag, FileId(p, i)) ELSE mes]
                 /\ processingMessages' =
                        IF ps1.pc = "saving" THEN processingMessages \ {mid}
                        ELSE processingMessages
        ELSE /\ pass' = [pass EXCEPT ![p].jobs[i] = job]
             /\ UNCHANGED <<chat, processingMessages>>

JobAt(p, i, tpc) ==
    /\ pass[p].kind # "none"
    /\ i \in 1 .. Len(pass[p].jobs)
    /\ pass[p].jobs[i].tpc = tpc

\* the two blocks after collectReferenceImages: the list of the
\* multimodal-chat adapter is filled when the kind is gemini or the model is
\* a nano-banana one, the list of the custom-REST adapter when the kind is
\* naistera; the generic-REST adapter is handed the first list
BuiltLists(s) ==
    [referenceImages |-> s.apiType = "gemini" \/ isGeminiModel(s.model),
     referenceDataUrls |-> s.apiType = "naistera"]

\* collectReferenceImages returns: the lists are filled and the retry loop
\* starts
CollectDone(p, i, dom) ==
    /\ JobAt(p, i, "collect")
    /\ Continue(p, i, LoopHead([pass[p].jobs[i] EXCEPT !.collected = TRUE,
                                                       !.built = BuiltLists(settings)],
                              settings), dom)
    /\ UNCHANGED <<settings, files, changes, scan, refs, moduleState>>

\* the backend answers the attempt in flight
BackendResponds(p, i, r, dom) ==
    /\ JobAt(p, i, "attempt")
    /\ Continue(p, i, SaveStart(OnReply(pass[p].jobs[i], r)), dom)
    /\ UNCHANGED <<settings, files, changes, scan, refs, moduleState>>

\* the backoff timer fires: attempt++ and the loop head again
SleepDone(p, i, dom) ==
    /\ JobAt(p, i, "sleep")
    /\ Continue(p, i, LoopHead([pass[p].jobs[i] EXCEPT !.attempt = @ + 1], settings), dom)
    /\ UNCHANGED <<settings, files, changes, scan, refs, moduleState>>

\* saveImageToFile returns the stored path, or its upload fails
SaveImageDone(p, i, ok, dom) ==
    /\ JobAt(p, i, "saving")
    /\ Continue(p, i,
           IF ok THEN [pass[p].jobs[i] EXCEPT !.tpc = "stored"]
           ELSE [pass[p].jobs[i] EXCEPT !.tpc = "threw", !.thrown = "error",
                                        !.err = <<"U", "p", "l", "o", "a", "d", " ", "f", "a", "i", "l", "e", "d", ":", " ">> \o StatusText(500)],
           dom)
    /\ files' = IF ok THEN files \cup {FileId(p, i)} ELSE files
    /\ UNCHANGED <<settings, changes, scan, refs, moduleState>>

\* context.saveChat() returns or raises
SaveChatDone(p, ok) ==
    /\ pass[p].pc = "saving"
    /\ pass' = [pass EXCEPT ![p] = Finished(@, IF ok THEN "saved" ELSE "savefailed")]
    /\ processingMessages' =
           IF pass[p].kind = "process" THEN processingMessages \ {pass[p].mid}
           ELSE processingMessages
    /\ UNCHANGED <<settings, chat, files, changes, scan, refs, moduleState>>

\* the input handler of the retry-count field:
\* settings.maxRetries = parseInt(e.target.value) || 3
SetMaxRetries(v) ==
    /\ changes < MaxSettingChanges
    /\ settings' = [settings EXCEPT !.maxRetries = IF v = 0 THEN 3 ELSE v]
    /\ changes' = changes + 1
    /\ UNCHANGED <<processingMessages, chat, files, pass, scan, refs, moduleState>>

----------------------------------------------------------------------------
(* Message text as a sequence of characters: the String.prototype          *)
(* operations the scanner and the patcher use                               *)

Max(a, b) == IF a >= b THEN a ELSE b

\* String.prototype.indexOf(sub, from): 0-based position, -1 when absent
IndexOf(s, sub, from) ==
    LET hits == {i \in from .. (Len(s) - Len(sub)) :
                    /\ s[i + 1] = sub[1]
                    /\ SubSeq(s, i + 1, i + Len(sub)) = sub}
    IN  IF hits = {} THEN -1 ELSE CHOOSE i \in hits : \A j \in hits : i <= j

\* String.prototype.lastIndexOf(sub, from)
LastIndexOf(s, sub, from) ==
    LET hits == {i \in 0 .. Min(from, Len(s) - Len(sub)) :
                    /\ s[i + 1] = sub[1]
                    /\ SubSeq(s, i + 1, i + Len(sub)) = sub}
    IN  IF hits = {} THEN -1 ELSE CHOOSE i \in hits : \A j \in hits : i >= j

\* String.prototype.substring(a, b)
Substring(s, a, b) == SubSeq(s, a + 1, b)

\* s.replace(/c/g, d) for single characters c and d
ReplaceAllChar(s, c, d) == [i \in 1 .. Len(s) |-> IF s[i] = c THEN d ELSE s[i]]

\* position of the first character of set at or after i, Len(s) when none
FirstIn(s, i, set) ==
    LET hits == {j \in i .. (Len(s) - 1) : s[j + 1] \in set}
    IN  IF hits = {} THEN Len(s) ELSE CHOOSE j \in hits : \A k \in hits : j <= k

\* position of the first character outside set at or after i
FirstNotIn(s, i, set) ==
    LET hits == {j \in i .. (Len(s) - 1) : s[j + 1] \notin set}
    IN  IF hits = {} THEN Max(i, Len(s)) ELSE CHOOSE j \in hits : \A k \in hits : j <= k

\* the replacement patterns of String.prototype.replace with a string
\* pattern: $$ inserts "$", $& inserts the matched text; every other
\* character is inserted as it is (the texts explored hold no other pattern)
RECURSIVE ExpandReplacement(_, _)
ExpandReplacement(new, matched) ==
    LET hits == {j \in 0 .. (Len(new) - 2) :
                    new[j + 1] = "$" /\ new[j + 2] \in {"$", "&"}}
        at == CHOOSE j \in hits : \A k \in hits : j <= k
    IN  IF hits = {} THEN new
        ELSE SubSeq(new, 1, at)
                \o (IF new[at + 2] = "$" THEN <<"$">> ELSE matched)
                \o ExpandReplacement(SubSeq(new, at + 3, Len(new)), matched)

\* appends the replacement when old does not occur
ReplaceStringOrAppend(text, old, new) ==
    LET at == IndexOf(text, old, 0)
    IN  IF at = -1 THEN text \o new
        ELSE Substring(text, 0, at) \o new \o Substring(text, at + Len(old), Len(text))

\* writes the replacement and drops what follows the occurrence
ReplaceStringDroppingRest(text, old, new) ==
    LET at == IndexOf(text, old, 0)
    IN  IF at = -1 THEN text
        ELSE Substring(text, 0, at) \o ExpandReplacement(new, old)

\* text.replace(old, new) with a string pattern: the first occurrence only,
\* the text itself when old does not occur
ReplaceString(text, old, new) ==
    LET at == IndexOf(text, old, 0)
    IN  IF at = -1 THEN text
        ELSE Substring(text, 0, at) \o ExpandReplacement(new, old)
                \o Substring(text, at + Len(old), Len(text))

----------------------------------------------------------------------------
(* The brace scan of parseImageTags (both formats): position just past the *)
(* '}' that returns the depth to zero, -1 when the text ends first          *)

\* counts braces inside string literals as well
RECURSIVE BraceScanNoStrings(_, _, _, _)
BraceScanNoStrings(text, from, braceCount, inString) ==
    LET i == FirstIn(text, from, {"{", "}"})
        char == text[i + 1]
    IN  IF i >= Len(text) THEN -1
        ELSE IF char = "{"
             THEN BraceScanNoStrings(text, i + 1, braceCount + 1, inString)
        ELSE IF braceCount - 1 = 0 THEN i + 1
        ELSE BraceScanNoStrings(text, i + 1, braceCount - 1, inString)

RECURSIVE BraceScan(_, _, _, _)
BraceScan(text, from, braceCount, inString) ==
    LET i == FirstIn(text, from, {"\\", "\"", "{", "}"})
        char == text[i + 1]
    IN  IF i >= Len(text) THEN -1
        \* escapeNext: the character after the backslash is passed over
        ELSE IF char = "\\" /\ inString
             THEN BraceScan(text, i + 2, braceCount, inString)
        ELSE IF char = "\""
             THEN BraceScan(text, i + 1, braceCount, ~inString)
        ELSE IF ~inString /\ char = "{"
             THEN BraceScan(text, i + 1, braceCount + 1, inString)
        ELSE IF ~inString /\ char = "}"
             THEN IF braceCount - 1 = 0 THEN i + 1
                  ELSE BraceScan(text, i + 1, braceCount - 1, inString)
        ELSE BraceScan(text, i + 1, braceCount, inString)

----------------------------------------------------------------------------
(* JSON.parse on the instruction payloads: an object whose members are      *)
(* strings; anything else in the payload is a syntax error.  The result    *)
(* keeps the member "prompt".                                               *)

\* a string literal whose opening quote is at 0-based position i - 1:
\* [ok, val, next], next the position after the closing quote
RECURSIVE JsonString(_, _, _)
JsonString(s, i, acc) ==
    LET j == FirstIn(s, i, {"\"", "\\"})
        run == acc \o Substring(s, i, j)
    IN  IF j >= Len(s) THEN [ok |-> FALSE, val |-> run, next |-> j]
        ELSE IF s[j + 1] = "\"" THEN [ok |-> TRUE, val |-> run, next |-> j + 1]
        ELSE IF j + 1 < Len(s) /\ s[j + 2] \in {"\"", "\\", "/", "b", "f", "n", "r", "t"}
             THEN JsonString(s, j + 2, Append(run, s[j + 2]))
        ELSE [ok |-> FALSE, val |-> run, next |-> j]

JsonFail == [ok |-> FALSE, prompt |-> <<>>]

\* the members of an object from position i on
RECURSIVE JsonMembers(_, _, _)
JsonMembers(s, i, prompt) ==
    IF ~(i < Len(s) /\ s[i + 1] = "\"") THEN JsonFail
    ELSE LET key == JsonString(s, i + 1, <<>>) IN
         IF ~key.ok \/ ~(key.next < Len(s) /\ s[key.next + 1] = ":")
                    \/ ~(key.next + 1 < Len(s) /\ s[key.next + 2] = "\"")
         THEN JsonFail
         ELSE LET val == JsonString(s, key.next + 2, <<>>)
                  now == IF key.val = <<"p", "r", "o", "m", "p", "t">> THEN val.val
                         ELSE prompt
              IN  IF ~val.ok \/ val.next >= Len(s) THEN JsonFail
                  ELSE IF s[val.next + 1] = "}"
                       THEN IF val.next + 1 = Len(s)
                            THEN [ok |-> TRUE, prompt |-> now]
                            ELSE JsonFail
                  ELSE IF s[val.next + 1] = ","
                       THEN JsonMembers(s, val.next + 1, now)
                  ELSE JsonFail

JsonParse(s) ==
    IF Len(s) < 2 \/ s[1] # "{" THEN JsonFail
    ELSE IF s[2] = "}"
         THEN IF Len(s) = 2 THEN [ok |-> TRUE, prompt |-> <<>>] ELSE JsonFail
    ELSE JsonMembers(s, 1, <<>>)

----------------------------------------------------------------------------
(* The two regular expressions applied to a TAGGED element                  *)

NoSpan == [from |-> -1, to |-> -1]

\* "src" under the i flag
IsSrcAt(s, i) ==
    /\ i + 3 <= Len(s)
    /\ s[i + 1] \in {"s", "S"}
    /\ s[i + 2] \in {"r", "R"}
    /\ s[i + 3] \in {"c", "C"}

First(hits) == CHOOSE i \in hits : \A j \in hits : i <= j

\* /src\s*=\s*["']?([^"'\s>]+)/i tried at position i: the span of group 1
SrcValueAt(s, i) ==
    LET a == FirstNotIn(s, i + 3, {" "})
        b == FirstNotIn(s, a + 1, {" "})
        c == IF b < Len(s) /\ s[b + 1] \in {"\"", "'"} THEN b + 1 ELSE b
        d == FirstIn(s, c, {"\"", "'", " ", ">"})
    IN  IF IsSrcAt(s, i) /\ a < Len(s) /\ s[a + 1] = "=" /\ d > c
        THEN [from |-> c, to |-> d]
        ELSE NoSpan

\* srcMatch ? srcMatch[1] : ''
SrcValue(fullImgTag) ==
    LET hits == {i \in 0 .. (Len(fullImgTag) - 3) :
                    SrcValueAt(fullImgTag, i) # NoSpan}
        m == SrcValueAt(fullImgTag, First(hits))
    IN  IF hits = {} THEN <<>> ELSE Substring(fullImgTag, m.from, m.to)

\* /src\s*=\s*(['"])[^'"]*\1/i tried at position i: the span of the match
SrcQuotedAt(s, i) ==
    LET a == FirstNotIn(s, i + 3, {" "})
        b == FirstNotIn(s, a + 1, {" "})
        d == FirstIn(s, b + 1, {"\"", "'"})
    IN  IF /\ IsSrcAt(s, i) /\ a < Len(s) /\ s[a + 1] = "="
           /\ b < Len(s) /\ s[b + 1] \in {"\"", "'"}
           /\ d < Len(s) /\ s[d + 1] = s[b + 1]
        THEN [from |-> i, to |-> d + 1]
        ELSE NoSpan

\* fullMatch.replace(/src\s*=\s*(['"])[^'"]*\1/i, `src="${path}"`)
ReplaceSrcAttr(fullMatch, path) ==
    LET hits == {i \in 0 .. (Len(fullMatch) - 3) :
                    SrcQuotedAt(fullMatch, i) # NoSpan}
        m == SrcQuotedAt(fullMatch, First(hits))
    IN  IF hits = {} THEN fullMatch
        ELSE Substring(fullMatch, 0, m.from)
                \o <<"s", "r", "c", "=", "\"">> \o path \o <<"\"">>
                \o Substring(fullMatch, m.to, Len(fullMatch))

----------------------------------------------------------------------------
(* Literals of the patcher *)

ERROR_IMAGE_PATH ==
    <<"/", "s", "c", "r", "i", "p", "t", "s", "/", "e", "x", "t", "e", "n",
      "s", "i", "o", "n", "s", "/", "t", "h", "i", "r", "d", "-", "p", "a",
      "r", "t", "y", "/", "s", "i", "l", "l", "y", "i", "m", "a", "g", "e",
      "s", "/", "e", "r", "r", "o", "r", ".", "s", "v", "g">>

----------------------------------------------------------------------------
(* parseImageTags on a character text: one step per loop iteration         *)

\* the entity replacements of the TAGGED payload as the source holds them:
\* each replaces a character by itself
NormalizeInstruction(s) ==
    ReplaceAllChar(ReplaceAllChar(ReplaceAllChar(s, "\"", "\""), "'", "'"),
                   "&", "&")

\* records the offset one character late
DirectiveOffByOne(fullMatch, index, prompt, isNewFormat, existingSrc) ==
    [fullMatch |-> fullMatch, index |-> index + 1, prompt |-> prompt,
     isNewFormat |-> isNewFormat, existingSrc |-> existingSrc]

Directive(fullMatch, index, prompt, isNewFormat, existingSrc) ==
    [fullMatch |-> fullMatch, index |-> index, prompt |-> prompt,
     isNewFormat |-> isNewFormat, existingSrc |-> existingSrc]

\* variant: every HEAD request is answered with success
checkFileExistsAlways(path, lost) == TRUE

\* checkFileExists: a HEAD request for the path
checkFileExists(path, lost) == path \notin lost

\* one iteration of the TAGGED loop
TaggedStep(sc) ==
    LET text == sc.text
        imgTagMarker ==
            <<"d", "a", "t", "a", "-", "i", "i", "g", "-", "i", "n", "s", "t", "r",
              "u", "c", "t", "i", "o", "n", "=">>
        ImgOpen == <<"<", "i", "m", "g">>
        MarkerGen == <<"[", "I", "M", "G", ":", "G", "E", "N", "]">>
        MarkerImg == <<"[", "I", "M", "G", ":">>
        ErrorSvg == <<"e", "r", "r", "o", "r", ".", "s", "v", "g">>
        markerPos == IndexOf(text, imgTagMarker, sc.pos)
        imgStart == LastIndexOf(text, ImgOpen, markerPos)
        afterMarker == markerPos + Len(imgTagMarker)
        jsonStart == IndexOf(text, <<"{">>, afterMarker)
        jsonEnd == BraceScan(text, jsonStart, 0, FALSE)
        gt == IndexOf(text, <<">">>, jsonEnd)
        imgEnd == gt + 1
        fullImgTag == Substring(text, imgStart, imgEnd)
        instructionJson == Substring(text, jsonStart, jsonEnd)
        srcValue == SrcValue(fullImgTag)
        hasMarker == Includes(srcValue, MarkerGen) \/ Includes(srcValue, MarkerImg)
        hasErrorImage == Includes(srcValue, ErrorSvg)
        hasPath == srcValue # <<>> /\ srcValue[1] = "/" /\ Len(srcValue) > 5
        checked == ~sc.forceAll /\ ~(hasMarker \/ srcValue = <<>>)
                       /\ hasPath /\ sc.checkExistence
        missing == checked /\ ~checkFileExists(srcValue, sc.lost)
        needsGeneration ==
            sc.forceAll \/ hasMarker \/ srcValue = <<>> \/ missing
        logged == IF missing THEN Append(sc.log, "WARN file") ELSE sc.log
        data == JsonParse(NormalizeInstruction(instructionJson))
    IN  IF markerPos = -1 THEN [sc EXCEPT !.phase = "legacy", !.pos = 0]
        ELSE IF imgStart = -1 \/ markerPos - imgStart > 500
             THEN [sc EXCEPT !.pos = markerPos + 1]
        ELSE IF jsonStart = -1 \/ jsonStart > afterMarker + 10
             THEN [sc EXCEPT !.pos = markerPos + 1]
        ELSE IF jsonEnd = -1 THEN [sc EXCEPT !.pos = markerPos + 1]
        ELSE IF gt = -1 THEN [sc EXCEPT !.pos = markerPos + 1]
        ELSE IF hasErrorImage /\ ~sc.forceAll THEN [sc EXCEPT !.pos = imgEnd]
        ELSE IF ~needsGeneration THEN [sc EXCEPT !.pos = imgEnd]
        ELSE IF data.ok
             THEN [sc EXCEPT
                     !.tags = Append(@, Directive(fullImgTag, imgStart,
                                  data.prompt, TRUE,
                                  IF hasPath THEN srcValue ELSE <<>>)),
                     !.log = Append(logged, "INFO found"),
                     !.pos = imgEnd]
        ELSE [sc EXCEPT !.log = Append(logged, "WARN parse"), !.pos = imgEnd]

\* the marker is tried again from its own position when its braces do not
\* balance
LegacyStepFromMarker(sc) ==
    LET text == sc.text
        marker == <<"[", "I", "M", "G", ":", "G", "E", "N", ":">>
        markerIndex == IndexOf(text, marker, sc.pos)
        jsonStart == markerIndex + Len(marker)
        jsonEnd == BraceScan(text, jsonStart, 0, FALSE)
        jsonStr == Substring(text, jsonStart, jsonEnd)
        afterJson == Substring(text, jsonEnd, Len(text))
        tagOnly == Substring(text, markerIndex, jsonEnd + 1)
        data == JsonParse(ReplaceAllChar(jsonStr, "'", "\""))
    IN  IF markerIndex = -1 THEN [sc EXCEPT !.phase = "scanned"]
        ELSE IF jsonEnd = -1 THEN [sc EXCEPT !.pos = markerIndex]
        ELSE IF ~(afterJson # <<>> /\ afterJson[1] = "]") THEN [sc EXCEPT !.pos = jsonEnd]
        ELSE IF data.ok
             THEN [sc EXCEPT
                     !.tags = Append(@, Directive(tagOnly, markerIndex,
                                  data.prompt, FALSE, <<>>)),
                     !.log = Append(@, "INFO found"),
                     !.pos = jsonEnd + 1]
        ELSE [sc EXCEPT !.log = Append(@, "WARN parse"), !.pos = jsonEnd + 1]

\* one iteration of the LEGACY loop
LegacyStep(sc) ==
    LET text == sc.text
        marker == <<"[", "I", "M", "G", ":", "G", "E", "N", ":">>
        markerIndex == IndexOf(text, marker, sc.pos)
        jsonStart == markerIndex + Len(marker)
        jsonEnd == BraceScan(text, jsonStart, 0, FALSE)
        jsonStr == Substring(text, jsonStart, jsonEnd)
        afterJson == Substring(text, jsonEnd, Len(text))
        tagOnly == Substring(text, markerIndex, jsonEnd + 1)
        data == JsonParse(ReplaceAllChar(jsonStr, "'", "\""))
    IN  IF markerIndex = -1 THEN [sc EXCEPT !.phase = "scanned"]
        ELSE IF jsonEnd = -1 THEN [sc EXCEPT !.pos = jsonStart]
        ELSE IF ~(afterJson # <<>> /\ afterJson[1] = "]") THEN [sc EXCEPT !.pos = jsonEnd]
        ELSE IF data.ok
             THEN [sc EXCEPT
                     !.tags = Append(@, Directive(tagOnly, markerIndex,
                                  data.prompt, FALSE, <<>>)),
                     !.log = Append(@, "INFO found"),
                     !.pos = jsonEnd + 1]
        ELSE [sc EXCEPT !.log = Append(@, "WARN parse"), !.pos = jsonEnd + 1]

----------------------------------------------------------------------------
(* Patching the character text with the outcome of one directive           *)

\* the path saveImageToFile returns for the i-th image of the batch
StoredPath(i) ==
    <<"/", "u", "s", "e", "r", "/", "i", "m", "a", "g", "e", "s", "/", "i",
      "i", "g", "_">>
        \o <<DigitChar[i + 1]>>

\* processMessageTags, after saveImageToFile
PatchSuccessText(text, tag, imagePath) ==
    IF tag.isNewFormat
    THEN ReplaceString(text, tag.fullMatch, ReplaceSrcAttr(tag.fullMatch, imagePath))
    ELSE ReplaceString(text, tag.fullMatch,
                       <<"[", "I", "M", "G", ":", "U+2713", ":">>
                           \o imagePath \o <<"]">>)

\* processMessageTags, catch block
PatchErrorText(text, tag, message) ==
    IF tag.isNewFormat
    THEN ReplaceString(text, tag.fullMatch,
                       ReplaceSrcAttr(tag.fullMatch, ERROR_IMAGE_PATH))
    ELSE ReplaceString(text, tag.fullMatch,
                       <<"[", "I", "M", "G", ":", "E", "R", "R", "O", "R", ":">>
                           \o Substring0(message, 50) \o <<"]">>)

\* regenerateMessageImages, after saveImageToFile: both formats alike
PatchRegenText(text, tag, imagePath) ==
    ReplaceString(text, tag.fullMatch, ReplaceSrcAttr(tag.fullMatch, imagePath))

\* length of the common prefix of two texts
CommonPrefixLen(s, t) ==
    LET n == Min(Len(s), Len(t))
        hits == {k \in 0 .. (n - 1) : s[k + 1] # t[k + 1]}
    IN  IF hits = {} THEN n ELSE First(hits)

----------------------------------------------------------------------------
(* Message texts of the scanner specification: two fragments with plain    *)
(* characters between them                                                   *)

UnitNames ==
    {"TGen", "TQuote", "TNoSrc", "TBare", "TFile", "TError", "TDollar",
     "TBadJson", "TUnbal", "TNoClose", "TNoImg", "TNoBrace", "TOverlap",
     "LOk", "LQuote", "LUnbal", "LNoBracket", "LBadJson", "Stray", "Empty",
     "TShort", "TRelative", "TOtherMarker"}

\* the text of a fragment
UnitText(u) ==
    CASE \* a TAGGED element awaiting generation
         u = "TGen" ->
            <<"<", "i", "m", "g", " ", "d", "a", "t", "a", "-", "i", "i", "g", "-",
            "i", "n", "s", "t", "r", "u", "c", "t", "i", "o", "n", "=", "'", "{",
            "\"", "p", "r", "o", "m", "p", "t", "\"", ":", "\"", "a", "\"", "}",
            "'", " ", "s", "r", "c", "=", "\"", "[", "I", "M", "G", ":", "G",
            "E", "N", "]", "\"", ">">>
      [] \* braces and an escaped quote inside the prompt string
         u = "TQuote" ->
            <<"<", "i", "m", "g", " ", "d", "a", "t", "a", "-", "i", "i", "g", "-",
            "i", "n", "s", "t", "r", "u", "c", "t", "i", "o", "n", "=", "'", "{",
            "\"", "p", "r", "o", "m", "p", "t", "\"", ":", "\"", "a", " ", "\\",
            "\"", " ", "}", " ", "b", "\"", "}", "'", " ", "s", "r", "c", "=",
            "\"", "\"", ">">>
      [] \* no src attribute
         u = "TNoSrc" ->
            <<"<", "i", "m", "g", " ", "d", "a", "t", "a", "-", "i", "i", "g", "-",
            "i", "n", "s", "t", "r", "u", "c", "t", "i", "o", "n", "=", "'", "{",
            "\"", "p", "r", "o", "m", "p", "t", "\"", ":", "\"", "a", "\"", "}",
            "'", ">">>
      [] \* unquoted src value
         u = "TBare" ->
            <<"<", "i", "m", "g", " ", "d", "a", "t", "a", "-", "i", "i", "g", "-",
            "i", "n", "s", "t", "r", "u", "c", "t", "i", "o", "n", "=", "'", "{",
            "\"", "p", "r", "o", "m", "p", "t", "\"", ":", "\"", "a", "\"", "}",
            "'", " ", "s", "r", "c", "=", "[", "I", "M", "G", ":", "G", "E", "N",
            "]", ">">>
      [] \* src is a stored path
         u = "TFile" ->
            <<"<", "i", "m", "g", " ", "d", "a", "t", "a", "-", "i", "i", "g", "-",
            "i", "n", "s", "t", "r", "u", "c", "t", "i", "o", "n", "=", "'", "{",
            "\"", "p", "r", "o", "m", "p", "t", "\"", ":", "\"", "a", "\"", "}",
            "'", " ", "s", "r", "c", "=", "\"", "/", "u", "s", "e", "r", "/",
            "i", "m", "a", "g", "e", "s", "/", "i", "i", "g", "_", "9", "\"", ">">>
      [] \* src is the error sentinel
         u = "TError" ->
            <<"<", "i", "m", "g", " ", "d", "a", "t", "a", "-", "i", "i", "g", "-",
            "i", "n", "s", "t", "r", "u", "c", "t", "i", "o", "n", "=", "'", "{",
            "\"", "p", "r", "o", "m", "p", "t", "\"", ":", "\"", "a", "\"", "}",
            "'", " ", "s", "r", "c", "=", "\"", "/", "s", "c", "r", "i", "p",
            "t", "s", "/", "e", "x", "t", "e", "n", "s", "i", "o", "n", "s", "/",
            "t", "h", "i", "r", "d", "-", "p", "a", "r", "t", "y", "/", "s", "i",
            "l", "l", "y", "i", "m", "a", "g", "e", "s", "/", "e", "r", "r", "o",
            "r", ".", "s", "v", "g", "\"", ">">>
      [] \* a prompt that holds two dollar signs
         u = "TDollar" ->
            <<"<", "i", "m", "g", " ", "d", "a", "t", "a", "-", "i", "i", "g", "-",
            "i", "n", "s", "t", "r", "u", "c", "t", "i", "o", "n", "=", "'", "{",
            "\"", "p", "r", "o", "m", "p", "t", "\"", ":", "\"", "$", "$", "\"",
            "}", "'", " ", "s", "r", "c", "=", "\"", "[", "I", "M", "G", ":",
            "G", "E", "N", "]", "\"", ">">>
      [] \* balanced braces, not JSON
         u = "TBadJson" ->
            <<"<", "i", "m", "g", " ", "d", "a", "t", "a", "-", "i", "i", "g", "-",
            "i", "n", "s", "t", "r", "u", "c", "t", "i", "o", "n", "=", "'", "{",
            "p", "r", "o", "m", "p", "t", "}", "'", " ", "s", "r", "c", "=",
            "\"", "\"", ">">>
      [] \* no closing brace
         u = "TUnbal" ->
            <<"<", "i", "m", "g", " ", "d", "a", "t", "a", "-", "i", "i", "g", "-",
            "i", "n", "s", "t", "r", "u", "c", "t", "i", "o", "n", "=", "'", "{",
            "\"", "p", "r", "o", "m", "p", "t", "\"", ":", "\"", "a", "\"", "'",
            " ", "s", "r", "c", "=", "\"", "\"", ">">>
      [] \* no closing '>'
         u = "TNoClose" ->
            <<"<", "i", "m", "g", " ", "d", "a", "t", "a", "-", "i", "i", "g", "-",
            "i", "n", "s", "t", "r", "u", "c", "t", "i", "o", "n", "=", "'", "{",
            "\"", "p", "r", "o", "m", "p", "t", "\"", ":", "\"", "a", "\"", "}",
            "'", " ", "s", "r", "c", "=", "\"", "\"">>
      [] \* no element start
         u = "TNoImg" ->
            <<"d", "a", "t", "a", "-", "i", "i", "g", "-", "i", "n", "s", "t", "r",
            "u", "c", "t", "i", "o", "n", "=", "'", "{", "\"", "p", "r", "o",
            "m", "p", "t", "\"", ":", "\"", "a", "\"", "}", "'", " ", "s", "r",
            "c", "=", "\"", "\"", ">">>
      [] \* no opening brace after the marker
         u = "TNoBrace" ->
            <<"<", "i", "m", "g", " ", "d", "a", "t", "a", "-", "i", "i", "g", "-",
            "i", "n", "s", "t", "r", "u", "c", "t", "i", "o", "n", "=", "'", "'",
            " ", "s", "r", "c", "=", "\"", "\"", ">">>
      [] \* a LEGACY marker inside a TAGGED element
         u = "TOverlap" ->
            <<"<", "i", "m", "g", " ", "d", "a", "t", "a", "-", "i", "i", "g", "-",
            "i", "n", "s", "t", "r", "u", "c", "t", "i", "o", "n", "=", "'", "{",
            "\"", "p", "r", "o", "m", "p", "t", "\"", ":", "\"", "a", "\"", "}",
            "'", " ", "a", "l", "t", "=", "'", "[", "I", "M", "G", ":", "G", "E",
            "N", ":", "{", "\"", "p", "r", "o", "m", "p", "t", "\"", ":", "\"",
            "c", "\"", "}", "]", "'", " ", "s", "r", "c", "=", "\"", "\"", ">">>
      [] \* a LEGACY marker
         u = "LOk" ->
            <<"[", "I", "M", "G", ":", "G", "E", "N", ":", "{", "\"", "p", "r",
            "o", "m", "p", "t", "\"", ":", "\"", "c", "\"", "}", "]">>
      [] u = "LQuote" ->
            <<"[", "I", "M", "G", ":", "G", "E", "N", ":", "{", "\"", "p", "r",
            "o", "m", "p", "t", "\"", ":", "\"", "c", " ", "\\", "\"", " ", "}",
            " ", "d", "\"", "}", "]">>
      [] u = "LUnbal" ->
            <<"[", "I", "M", "G", ":", "G", "E", "N", ":", "{", "\"", "p", "r",
            "o", "m", "p", "t", "\"", ":", "\"", "c", "\"", "]">>
      [] u = "LNoBracket" ->
            <<"[", "I", "M", "G", ":", "G", "E", "N", ":", "{", "\"", "p", "r",
            "o", "m", "p", "t", "\"", ":", "\"", "c", "\"", "}">>
      [] u = "LBadJson" ->
            <<"[", "I", "M", "G", ":", "G", "E", "N", ":", "{", "p", "r", "o", "m",
            "p", "t", "}", "]">>
      [] \* src is a path of four characters
         u = "TShort" ->
            <<"<", "i", "m", "g", " ", "d", "a", "t", "a", "-", "i", "i", "g", "-",
            "i", "n", "s", "t", "r", "u", "c", "t", "i", "o", "n", "=", "'", "{",
            "\"", "p", "r", "o", "m", "p", "t", "\"", ":", "\"", "a", "\"", "}",
            "'", " ", "s", "r", "c", "=", "\"", "/", "a", ".", "p", "\"", ">">>
      [] \* src is a relative URL
         u = "TRelative" ->
            <<"<", "i", "m", "g", " ", "d", "a", "t", "a", "-", "i", "i", "g", "-",
            "i", "n", "s", "t", "r", "u", "c", "t", "i", "o", "n", "=", "'", "{",
            "\"", "p", "r", "o", "m", "p", "t", "\"", ":", "\"", "a", "\"", "}",
            "'", " ", "s", "r", "c", "=", "\"", "a", ".", "p", "n", "g", "\"", ">">>
      [] \* src holds a marker other than [IMG:GEN]
         u = "TOtherMarker" ->
            <<"<", "i", "m", "g", " ", "d", "a", "t", "a", "-", "i", "i", "g", "-",
            "i", "n", "s", "t", "r", "u", "c", "t", "i", "o", "n", "=", "'", "{",
            "\"", "p", "r", "o", "m", "p", "t", "\"", ":", "\"", "a", "\"", "}",
            "'", " ", "s", "r", "c", "=", "\"", "[", "I", "M", "G", ":", "X",
            "]", "\"", ">">>
      [] \* a closing brace in the prose
         u = "Stray" ->
            <<"}">>
      [] OTHER -> <<>>


\* offset of the k-th fragment in the text
UnitOffset(units, pad, k) == IF k = 1 THEN 0 ELSE Len(UnitText(units[1])) + pad

----------------------------------------------------------------------------
(* One pass over a character text: scan, dispatch, patch in completion     *)
(* order, persist; then a second scan of the patched text                  *)

NoScan ==
    [phase |-> "idle", kind |-> "none", units |-> <<>>, pad |-> 0,
     text |-> <<>>, checkExistence |-> FALSE, forceAll |-> FALSE, pos |-> 0,
     tags |-> <<>>, log |-> <<>>, lost |-> {}, round |-> 0,
     first |-> <<>>, jobs |-> <<>>, saved |-> 0]

\* processMessageTags scans with { checkExistence: true },
\* regenerateMessageImages with { forceAll: true }
\* (lost: the paths of the text whose file is not on the server)
StartScan(kind, units, pad, lost) ==
    [NoScan EXCEPT !.phase = "tagged", !.kind = kind, !.units = units,
                   !.lost = lost,
                   !.pad = pad, !.text = UnitText(units[1]) \o [i \in 1 .. pad |-> "."]
                                   \o UnitText(units[2]),
                   !.checkExistence = (kind = "process"),
                   !.forceAll = (kind = "regen"), !.round = 1]

NoPatch ==
    [st |-> "pending", own |-> 0, ownAt |-> -1, tried |-> FALSE, hit |-> -1,
     before |-> <<>>, after |-> <<>>, path |-> <<>>]

ScanTagged ==
    /\ scan.phase = "tagged"
    /\ scan' = TaggedStep(scan)
    /\ UNCHANGED <<settings, processingMessages, chat, files, pass, changes, refs, moduleState>>

ScanLegacy ==
    /\ scan.phase = "legacy"
    /\ scan' = LegacyStep(scan)
    /\ UNCHANGED <<settings, processingMessages, chat, files, pass, changes, refs, moduleState>>

\* after the scan: no directive ends the pass; otherwise every directive is
\* dispatched (negative: the stored retry count is below zero; dom: the
\* rendered message holds an img[data-iig-instruction] element)
Dispatch(negative, dom) ==
    /\ scan.phase = "scanned"
    /\ scan.kind \in {"process", "regen"}
    /\ scan' =
         IF scan.round = 2 THEN [scan EXCEPT !.phase = "rescanned"]
         ELSE IF scan.tags = <<>>
              THEN [scan EXCEPT !.phase = "done",
                                !.log = IF scan.kind = "process"
                                        THEN Append(@, "INFO no tags") ELSE @]
         ELSE [scan EXCEPT
                 !.phase = "batch",
                 !.jobs = [i \in 1 .. Len(scan.tags) |->
                             [NoPatch EXCEPT
                                !.own = scan.tags[i].index,
                                !.st = IF negative THEN "throws"
                                       ELSE IF scan.kind = "regen" /\ ~dom
                                            THEN "skipped" ELSE "pending"]]]
    /\ UNCHANGED <<settings, processingMessages, chat, files, pass, changes, refs, moduleState>>

\* the continuation of directive i after generation and storing: ok with
\* the stored path, or an error with a message; the text is patched
Resolve(i, ok) ==
    /\ scan.phase = "batch"
    /\ i \in 1 .. Len(scan.jobs)
    /\ scan.jobs[i].st \in {"pending", "throws"}
    /\ scan.kind = "regen" => \A j \in 1 .. (i - 1) :
                                scan.jobs[j].st \notin {"pending", "throws"}
    /\ LET tag == scan.tags[i]
           job == scan.jobs[i]
           text == scan.text
           path == StoredPath(i)
           thrown == job.st = "throws"
           patched ==
               IF thrown THEN text
               ELSE IF scan.kind = "regen"
                    THEN IF ok THEN PatchRegenText(text, tag, path) ELSE text
               ELSE IF ok THEN PatchSuccessText(text, tag, path)
               ELSE PatchErrorText(text, tag, <<"b", "o", "o", "m">>)
           applies == ~thrown /\ (scan.kind = "process" \/ ok)
           \* first position where the patch changed the text
           at == CommonPrefixLen(text, patched)
           delta == Len(patched) - Len(text)
       IN  scan' = [scan EXCEPT
              !.text = patched,
              !.jobs = [j \in 1 .. Len(scan.jobs) |->
                  IF j = i
                  THEN [job EXCEPT
                          !.st = IF thrown THEN "rejected"
                                 ELSE IF ok THEN "ok" ELSE "error",
                          !.ownAt = job.own,
                          !.tried = applies,
                          !.hit = IF applies
                                  THEN IndexOf(text, tag.fullMatch, 0) ELSE -1,
                          !.before = text,
                          !.after = patched,
                          !.path = IF ok /\ ~thrown THEN path ELSE <<>>]
                  ELSE [scan.jobs[j] EXCEPT
                          !.own = IF @ > at THEN @ + delta ELSE @]]]
    /\ UNCHANGED <<settings, processingMessages, chat, files, pass, changes, refs, moduleState>>

\* the end of the pass: saveChat once every directive has settled; a
\* rejected directive ends the pass without saving
Persist ==
    /\ scan.phase = "batch"
    /\ \/ /\ \E i \in 1 .. Len(scan.jobs) : scan.jobs[i].st = "rejected"
          /\ scan' = [scan EXCEPT !.phase = "failed"]
       \/ /\ \A i \in 1 .. Len(scan.jobs) : scan.jobs[i].st \in {"ok", "error", "skipped"}
          /\ scan' = [scan EXCEPT !.phase = "saved", !.saved = @ + 1]
    /\ UNCHANGED <<settings, processingMessages, chat, files, pass, changes, refs, moduleState>>

\* a later processMessageTags on the patched message: the scan again
Rescan ==
    /\ scan.phase = "saved"
    /\ scan.round = 1
    /\ scan' = [scan EXCEPT !.phase = "tagged", !.round = 2, !.pos = 0,
                            !.first = scan.tags, !.tags = <<>>,
                            !.checkExistence = TRUE, !.forceAll = FALSE]
    /\ UNCHANGED <<settings, processingMessages, chat, files, pass, changes, refs, moduleState>>

----------------------------------------------------------------------------
(* collectReferenceImages: style reference and previous images             *)

\* an image reference in a message text is a record [id, generated]: src
\* under /user/images/, with or without "iig_" in the path
NoImage == 0

\* the message with index m (0-based) written from a sequence of kinds
HistoryMessage(m, kinds) ==
    [k \in 1 .. Len(kinds) |-> [id |-> m * 10 + k, generated |-> kinds[k]]]

RECURSIVE Concat(_)
Concat(seqs) == IF seqs = <<>> THEN <<>> ELSE Head(seqs) \o Concat(Tail(seqs))

\* the history loop without its `continue` for the current message
GeneratedImagesOfAll(history, currentMessageId) ==
    LET n == Len(history)
        found(i) == LET mes == history[i + 1]
                        gen(img) == img.generated
                    IN  [k \in 1 .. Len(SelectSeq(mes, gen)) |->
                           [path |-> SelectSeq(mes, gen)[k].id,
                            messageIndex |-> i]]
    IN  Concat([j \in 1 .. n |-> found(n - j)])

\* the history loop: messages from the last to the first, the current one
\* left out; in every message the matches of the regular expression in
\* text order, kept when the path includes "iig_"
GeneratedImages(history, currentMessageId) ==
    LET n == Len(history)
        found(i) == IF i = currentMessageId THEN <<>>
                    ELSE LET mes == history[i + 1]
                             gen(img) == img.generated
                         IN  [k \in 1 .. Len(SelectSeq(mes, gen)) |->
                                [path |-> SelectSeq(mes, gen)[k].id,
                                 messageIndex |-> i]]
    IN  Concat([j \in 1 .. n |-> found(n - j)])

\* imageUrlToDataUrl: the data URL of the image, null when the fetch throws
imageUrlToDataUrl(path, unreachable) ==
    IF path \in unreachable THEN NoImage ELSE path

defaultReferenceSettings ==
    [sendPreviousImages |-> TRUE, maxPreviousImages |-> 2,
     sendStyleReference |-> TRUE, sendNpcReferences |-> TRUE,
     npcReferenceImages |-> <<>>, sendCharAvatar |-> FALSE,
     sendUserAvatar |-> FALSE, naisteraSendCharAvatar |-> FALSE,
     naisteraSendUserAvatar |-> FALSE]

\* leaves the style image among the candidates
PreviousCountKeepsStyle(maxPrev, len, hasStyle) == Min(maxPrev, len)

\* endIdx: how many of the newest images are tried as previous images
PreviousCount(maxPrev, len, hasStyle) ==
    Min(maxPrev, len - (IF hasStyle THEN 1 ELSE 0))

\* (npcReferenceImages: the entries [name, path] in insertion order, an
\* empty path for an entry without image)
collectReferenceImages(history, currentMessageId, cfg, unreachable, prompt) ==
    LET generatedImages == GeneratedImages(history, currentMessageId)
        len == Len(generatedImages)
        oldestImage == generatedImages[len]
        style == IF cfg.sendStyleReference /\ len > 0
                 THEN imageUrlToDataUrl(oldestImage.path, unreachable)
                 ELSE NoImage
        maxPrev == Min(IF cfg.maxPreviousImages = 0 THEN 2
                       ELSE cfg.maxPreviousImages, 4)
        endIdx == PreviousCount(maxPrev, len, style # NoImage)
        loaded(img) == imageUrlToDataUrl(img.path, unreachable) # NoImage
        taken == SelectSeq(SubSeq(generatedImages, 1, endIdx), loaded)
        previous == IF cfg.sendPreviousImages /\ len > 0
                    THEN [k \in 1 .. Len(taken) |-> taken[k].path]
                    ELSE <<>>
        promptLower == ToLowerCase(prompt)
        matched(npc) ==
            /\ npc.path # NoImage
            /\ Includes(promptLower, ToLowerCase(npc.name))
            /\ imageUrlToDataUrl(npc.path, unreachable) # NoImage
        found == SelectSeq(cfg.npcReferenceImages, matched)
        npcs == IF cfg.sendNpcReferences
                THEN [k \in 1 .. Len(found) |-> found[k].path]
                ELSE <<>>
    IN  IF history = <<>>
        THEN [previous |-> <<>>, style |-> NoImage, npcs |-> <<>>]
        ELSE [previous |-> previous, style |-> style, npcs |-> npcs]

\* (notFound: the paths the server answers with an error status; fetch()
\* resolves for them and the code does not read the status)
NoRefs ==
    [phase |-> "idle", history |-> <<>>, current |-> 0,
     cfg |-> defaultReferenceSettings, unreachable |-> {}, notFound |-> {},
     prompt |-> <<>>,
     result |-> [previous |-> <<>>, style |-> NoImage, npcs |-> <<>>],
     referenceImages |-> <<>>, referenceDataUrls |-> <<>>,
     adapter |-> "none", request |-> <<>>]

\* the input handler of iig_max_previous_images (v: parseInt of the entry,
\* 0 also for an entry that is not a number)
SetMaxPreviousImages(v) ==
    /\ refs.phase = "ready"
    /\ refs' = [refs EXCEPT !.cfg.maxPreviousImages =
                   Min(4, Max(1, IF v = 0 THEN 2 ELSE v))]
    /\ refs'.cfg # refs.cfg
    /\ UNCHANGED <<settings, processingMessages, chat, files, pass, changes, scan, moduleState>>

\* the change handlers of the two check boxes
SetSendPreviousImages(b) ==
    /\ refs.phase = "ready"
    /\ refs.cfg.sendPreviousImages # b
    /\ refs' = [refs EXCEPT !.cfg.sendPreviousImages = b]
    /\ UNCHANGED <<settings, processingMessages, chat, files, pass, changes, scan, moduleState>>

SetSendStyleReference(b) ==
    /\ refs.phase = "ready"
    /\ refs.cfg.sendStyleReference # b
    /\ refs' = [refs EXCEPT !.cfg.sendStyleReference = b]
    /\ UNCHANGED <<settings, processingMessages, chat, files, pass, changes, scan, moduleState>>

CollectReferences ==
    /\ refs.phase = "ready"
    /\ refs' = [refs EXCEPT
                  !.phase = "collected",
                  !.result = collectReferenceImages(refs.history, refs.current,
                                                    refs.cfg, refs.unreachable,
                                                    refs.prompt)]
    /\ UNCHANGED <<settings, processingMessages, chat, files, pass, changes, scan, moduleState>>

----------------------------------------------------------------------------
(* Specification of the passes *)

\* the slot of the stored record before the host has one
Absent == [undefined |-> TRUE]

\* no request built yet
NoImageConfig == [options |-> [aspectRatio |-> "", imageSize |-> ""],
                  aspectRatio |-> "", imageSize |-> "", sent |-> FALSE]

\* no call of getSettings counted, the empty log, the defaults as written in
\* the source: the object of npcReferenceImages is empty and only the
\* defaults refer to it
ModuleLoaded ==
    /\ getSettingsCalls = [count |-> 0, before |-> Absent, returned |-> Absent]
    /\ logBuffer = <<>>
    /\ clock = 0
    /\ defaultNpcs = [entries |-> defaultReferenceSettings.npcReferenceImages,
                      shared |-> FALSE]
    /\ imageConfig = NoImageConfig

Configured(n) ==
    [defaultSettings EXCEPT !.endpoint = SomeUrl, !.apiKey = SomeKey,
                            !.model = ModelDallE, !.maxRetries = n]

Message(user, mes) == [is_user |-> user, mes |-> mes]


OtherMessage(m) == IF m % 2 = 1 THEN Message(FALSE, <<TextTok(1), ImgTok(SrcGen, 3)>>) ELSE Message(TRUE, <<TextTok(4)>>)

Init ==
    /\ settings \in {Configured(0), Configured(-1), [Configured(0) EXCEPT !.apiKey = <<>>]}
    /\ processingMessages = {}
    \* prose, a pending TAGGED element, prose, a LEGACY marker; or an element
    \* without src attribute and one that already failed
    /\ \E t \in {<<TextTok(1), ImgTok(SrcGen, 1), TextTok(2), LegacyTok(2)>>,
                  <<ImgTok(SrcNone, 1), ImgTok(SrcError, 2)>>} :
           chat = [m \in MsgIds |-> IF m = 0 THEN Message(FALSE, t) ELSE OtherMessage(m)]
    /\ files = {}
    /\ pass = [p \in PassIds |-> NoPass]
    /\ changes = 0
    /\ ModuleLoaded
    /\ scan = NoScan
    /\ refs = NoRefs

Next ==
    \/ \E p \in PassIds, mid \in 0 .. NumMsgs : ProcessStart(p, mid)
    \/ \E p \in PassIds, elem \in BOOLEAN : ProcessScanDone(p, elem)
    \/ \E p \in PassIds, mid \in 0 .. NumMsgs : RegenStart(p, mid)
    \/ \E p \in PassIds, elem \in BOOLEAN, dom \in BOOLEAN : RegenScanDone(p, elem, dom)
    \/ \E p \in PassIds, i \in 1 .. 4, dom \in BOOLEAN : CollectDone(p, i, dom)
    \/ \E p \in PassIds, i \in 1 .. 4, r \in {Reply(200, <<>>, "inline"), Reply(500, <<>>, "none")}, dom \in BOOLEAN : BackendResponds(p, i, r, dom)
    \/ \E p \in PassIds, i \in 1 .. 4, ok \in BOOLEAN, dom \in BOOLEAN : SaveImageDone(p, i, ok, dom)
    \/ \E p \in PassIds, ok \in BOOLEAN : SaveChatDone(p, ok)

Spec == Init /\ [][Next]_vars

----------------------------------------------------------------------------
(* Specification of one generation call under every configuration *)

ApiTypes == {"openai", "gemini", "naistera"}

InitRetry ==
    /\ settings \in [enabled : {TRUE}, apiType : ApiTypes, endpoint : {<<>>, SomeUrl},
                     apiKey : {<<>>, SomeKey}, model : {<<>>, ModelDallE, ModelNano},
                     maxRetries : (0 .. MaxRetriesBound) \cup {-1}, retryDelay : {500, 1000}]
    /\ processingMessages = {}
    /\ chat = [m \in MsgIds |-> IF m = 0 THEN Message(FALSE, <<TextTok(1), LegacyTok(1)>>)
                                ELSE OtherMessage(m)]
    /\ files = {}
    /\ pass = [p \in PassIds |-> NoPass]
    /\ changes = 0
    /\ ModuleLoaded
    /\ scan = NoScan
    /\ refs = NoRefs

NextRetry ==
    \/ ProcessStart(1, 0)
    \/ \E elem \in BOOLEAN : ProcessScanDone(1, elem)
    \/ CollectDone(1, 1, TRUE)
    \/ \E r \in AllReplies : BackendResponds(1, 1, r, TRUE)
    \/ SleepDone(1, 1, TRUE)
    \/ \E ok \in BOOLEAN : SaveImageDone(1, 1, ok, TRUE)
    \/ \E ok \in BOOLEAN : SaveChatDone(1, ok)
    \/ \E v \in (0 .. MaxRetriesBound) \cup {-1} : SetMaxRetries(v)

SpecRetry == InitRetry /\ [][NextRetry]_vars

----------------------------------------------------------------------------
(* Specification of one pass over a character text *)

MaxPad == 1

\* the rest of the program at rest
AtRest ==
    /\ settings = Configured(0)
    /\ processingMessages = {}
    /\ chat = [m \in MsgIds |-> OtherMessage(m)]
    /\ files = {}
    /\ pass = [p \in PassIds |-> NoPass]
    /\ changes = 0
    /\ ModuleLoaded

\* the paths the texts hold as src
PathsOfTexts == {StoredPath(9), ERROR_IMAGE_PATH, <<"/", "a", ".", "p">>}

\* kind "parse" is parseImageTags(text) with its default options: the scan
\* alone, no pass after it
InitScan ==
    /\ AtRest
    /\ refs = NoRefs
    /\ \E kind \in {"process", "regen", "parse"}, u \in UnitNames, v \in UnitNames,
          n \in 0 .. MaxPad, lost \in {{}, PathsOfTexts} :
           scan = StartScan(kind, <<u, v>>, n, lost)

NextScan ==
    \/ ScanTagged
    \/ ScanLegacy
    \/ \E negative \in BOOLEAN, dom \in BOOLEAN : Dispatch(negative, dom)
    \/ \E i \in 1 .. 4, ok \in BOOLEAN : Resolve(i, ok)
    \/ Persist
    \/ Rescan

SpecScan == InitScan /\ [][NextScan]_vars

----------------------------------------------------------------------------
(* Specification of reference collection *)

MaxHistory == 4

History(h) == [m \in 1 .. Len(h) |-> HistoryMessage(m - 1, h[m])]

InitRefs ==
    /\ AtRest
    /\ scan = NoScan
    /\ \E h \in UNION {[1 .. n -> {<<>>, <<TRUE, TRUE>>, <<FALSE, TRUE>>}] :
                      n \in 1 .. MaxHistory} :
         \E cur \in 0 .. (Len(h) - 1) :
           \E un \in {{}} \cup {{m * 10 + k} : m \in 0 .. (Len(h) - 1), k \in 1 .. 2} :
             refs = [NoRefs EXCEPT !.phase = "ready", !.history = History(h),
                                   !.current = cur, !.unreachable = un]

NextRefs ==
    \/ \E v \in 0 .. 5 : SetMaxPreviousImages(v)
    \/ \E b \in BOOLEAN : SetSendPreviousImages(b)
    \/ \E b \in BOOLEAN : SetSendStyleReference(b)
    \/ CollectReferences

SpecRefs == InitRefs /\ [][NextRefs]_vars

----------------------------------------------------------------------------
(* Specification of one generation call while the backend is reconfigured  *)

\* the change handler of iig_api_type
SetApiType(v) ==
    /\ changes < MaxSettingChanges
    /\ settings.apiType # v
    /\ settings' = [settings EXCEPT !.apiType = v]
    /\ changes' = changes + 1
    /\ UNCHANGED <<processingMessages, chat, files, pass, scan, refs, moduleState>>

\* the change handler of iig_model: a nano-banana model also sets the kind
SetModel(v) ==
    /\ changes < MaxSettingChanges
    /\ settings.model # v
    /\ settings' = [settings EXCEPT
                      !.model = v,
                      !.apiType = IF isGeminiModel(v) THEN "gemini" ELSE @]
    /\ changes' = changes + 1
    /\ UNCHANGED <<processingMessages, chat, files, pass, scan, refs, moduleState>>

NextSwitch ==
    \/ NextRetry
    \/ \E v \in ApiTypes : SetApiType(v)
    \/ \E v \in {ModelDallE, ModelNano} : SetModel(v)

SpecSwitch == InitRetry /\ [][NextSwitch]_vars

----------------------------------------------------------------------------
(* The reference lists of one generation call *)

\* the avatar of the character and the avatar of the user, as paths
CharAvatar == 91
UserAvatar == 92

\* pushes the named-entity images before the previous images
ReferenceListEntitiesFirst(sendChar, sendUser, chatRefs, unreachable) ==
    LET RECURSIVE PushWhileRoom(_, _)
        PushWhileRoom(list, items) ==
            IF items = <<>> \/ Len(list) >= 4 THEN list
            ELSE PushWhileRoom(Append(list, Head(items)), Tail(items))
        charAvatar == imageUrlToDataUrl(CharAvatar, unreachable)
        userAvatar == imageUrlToDataUrl(UserAvatar, unreachable)
        avatars ==
            (IF sendChar /\ charAvatar # NoImage THEN <<charAvatar>> ELSE <<>>)
            \o (IF sendUser /\ userAvatar # NoImage THEN <<userAvatar>> ELSE <<>>)
        withStyle == IF chatRefs.style # NoImage
                     THEN Append(avatars, chatRefs.style) ELSE avatars
    IN  PushWhileRoom(PushWhileRoom(withStyle, chatRefs.npcs), chatRefs.previous)

\* one block of generateImageWithRetry: the avatars that are enabled and
\* retrieved, the style reference, then previous images and named-entity
\* images while the list holds fewer than 4
ReferenceList(sendChar, sendUser, chatRefs, unreachable) ==
    LET RECURSIVE PushWhileRoom(_, _)
        PushWhileRoom(list, items) ==
            IF items = <<>> \/ Len(list) >= 4 THEN list
            ELSE PushWhileRoom(Append(list, Head(items)), Tail(items))
        charAvatar == imageUrlToDataUrl(CharAvatar, unreachable)
        userAvatar == imageUrlToDataUrl(UserAvatar, unreachable)
        avatars ==
            (IF sendChar /\ charAvatar # NoImage THEN <<charAvatar>> ELSE <<>>)
            \o (IF sendUser /\ userAvatar # NoImage THEN <<userAvatar>> ELSE <<>>)
        withStyle == IF chatRefs.style # NoImage
                     THEN Append(avatars, chatRefs.style) ELSE avatars
    IN  PushWhileRoom(PushWhileRoom(withStyle, chatRefs.previous), chatRefs.npcs)

\* what the adapter puts into its request: slice(0, 4) of its list in the
\* multimodal-chat and custom-REST adapters, the first entry of
\* referenceImages in the generic-REST adapter
RequestReferences(adapter, referenceImages, referenceDataUrls) ==
    IF adapter = "naistera"
    THEN SubSeq(referenceDataUrls, 1, Min(4, Len(referenceDataUrls)))
    ELSE IF adapter = "gemini"
    THEN SubSeq(referenceImages, 1, Min(4, Len(referenceImages)))
    ELSE SubSeq(referenceImages, 1, Min(1, Len(referenceImages)))

\* after collectReferenceImages: both blocks, then the first attempt
BuildReferences ==
    /\ refs.phase = "collected"
    /\ LET built == BuiltLists(settings)
           images == IF built.referenceImages
                     THEN ReferenceList(refs.cfg.sendCharAvatar,
                                        refs.cfg.sendUserAvatar,
                                        refs.result, refs.unreachable)
                     ELSE <<>>
           dataUrls == IF built.referenceDataUrls
                       THEN ReferenceList(refs.cfg.naisteraSendCharAvatar,
                                          refs.cfg.naisteraSendUserAvatar,
                                          refs.result, refs.unreachable)
                       ELSE <<>>
       IN  refs' = [refs EXCEPT
                      !.phase = "attempt",
                      !.referenceImages = images,
                      !.referenceDataUrls = dataUrls,
                      !.adapter = SelectAdapter(settings),
                      !.request = RequestReferences(SelectAdapter(settings),
                                                    images, dataUrls)]
    /\ UNCHANGED <<settings, processingMessages, chat, files, pass, changes, scan, moduleState>>

\* the inputs of one call: histories with no, two and five generated images
\* before the current message; three named entities, of which the prompt
\* "ANN and pan" names the first and the third; at most one image whose
\* fetch is rejected or answered with an error status
InitList ==
    /\ \E kind \in ApiTypes, model \in {ModelDallE, ModelNano} :
           settings = [Configured(0) EXCEPT !.apiType = kind, !.model = model]
    /\ processingMessages = {}
    /\ chat = [m \in MsgIds |-> OtherMessage(m)]
    /\ files = {}
    /\ pass = [p \in PassIds |-> NoPass]
    /\ changes = 0
    /\ ModuleLoaded
    /\ scan = NoScan
    /\ \E h \in {<< <<>>, <<>> >>,
                  << <<TRUE, TRUE>>, <<>> >>,
                  << <<TRUE, TRUE>>, <<TRUE, TRUE>>, <<FALSE, TRUE>>, <<>> >>},
          cap \in {2, 4}, style \in BOOLEAN,
          npcs \in {<<>>, <<[name |-> <<"A", "n", "n">>, path |-> 81],
                            [name |-> <<"B", "a", "b">>, path |-> 82],
                            [name |-> <<"P", "a", "n">>, path |-> 83]>>},
          char \in BOOLEAN, user \in BOOLEAN, naistera \in BOOLEAN,
          failed \in {{}} \cup {{id} : id \in {1, 2, 22, 81, 83, CharAvatar, UserAvatar}},
          rejected \in BOOLEAN :
           refs = [NoRefs EXCEPT
                     !.phase = "ready", !.history = History(h),
                     !.current = Len(h) - 1,
                     !.prompt = <<"A", "N", "N", " ", "a", "n", "d", " ", "p", "a", "n">>,
                     !.unreachable = IF rejected THEN failed ELSE {},
                     !.notFound = IF rejected THEN {} ELSE failed,
                     !.cfg = [defaultReferenceSettings EXCEPT
                                !.maxPreviousImages = cap,
                                !.sendStyleReference = style,
                                !.npcReferenceImages = npcs,
                                !.sendCharAvatar = char,
                                !.sendUserAvatar = user,
                                !.naisteraSendCharAvatar = naistera,
                                !.naisteraSendUserAvatar = naistera]]

NextList ==
    \/ CollectReferences
    \/ BuildReferences

SpecList == InitList /\ [][NextList]_vars

----------------------------------------------------------------------------
(* The stored record of the options *)

\* defaultSettings with all its keys
AllDefaultSettings ==
    defaultSettings @@ defaultReferenceSettings
    @@ [size |-> "1024x1024", quality |-> "standard", userAvatarFile |-> "",
        aspectRatio |-> "1:1", imageSize |-> "1K",
        naisteraAspectRatio |-> "1:1", naisteraPreset |-> ""]

\* Object.assign(record, defaultSettings) in place of the loop
getSettingsOverwriting(slot, defaults) ==
    LET created == IF slot = Absent THEN defaults ELSE slot
    IN  defaults @@ created

\* getSettings: the record is created as a copy of the defaults when the
\* slot is empty, then every key of the defaults the record does not own is
\* assigned its default; the value is the record now in the slot
\* (defaults: defaultSettings as it is at the call)
getSettings(slot, defaults) ==
    LET created == IF slot = Absent THEN defaults ELSE slot
    IN  [key \in DOMAIN created \cup DOMAIN defaults |->
            IF key \in DOMAIN created THEN created[key]
            ELSE defaults[key]]

\* defaultSettings as it is now: Object.freeze froze its own keys, not the
\* object its key npcReferenceImages refers to
CurrentDefaults ==
    [AllDefaultSettings EXCEPT !.npcReferenceImages = defaultNpcs.entries]

MaxCalls == 3

\* one call of getSettings, from init() or from any of its other callers
GetSettings ==
    /\ getSettingsCalls.count < MaxCalls
    /\ settings' = getSettings(settings, CurrentDefaults)
    /\ getSettingsCalls' = [count |-> getSettingsCalls.count + 1,
                            before |-> settings,
                            returned |-> getSettings(settings, CurrentDefaults)]
    \* structuredClone copies the object of npcReferenceImages; the loop
    \* assigns defaultSettings[key], the object itself
    /\ defaultNpcs' = [defaultNpcs EXCEPT
                          !.shared = @ \/ (settings # Absent
                                           /\ "npcReferenceImages" \notin DOMAIN settings)]
    /\ UNCHANGED <<processingMessages, chat, files, pass, changes, scan, refs,
                   logBuffer, clock, imageConfig>>

\* the change handler of the check box iig_enabled, which writes to the
\* record createSettingsUI got from getSettings
SetEnabled(b) ==
    /\ getSettingsCalls.count > 0
    /\ changes < MaxSettingChanges
    /\ settings.enabled # b
    /\ settings' = [settings EXCEPT !.enabled = b]
    /\ changes' = changes + 1
    /\ UNCHANGED <<processingMessages, chat, files, pass, scan, refs, moduleState>>

\* what the host may hold in the slot when the module loads: nothing, the
\* record of this version, or a record with only some of its keys (one an
\* older version wrote, or an empty one), with the defaults or with values
\* the user chose, and with a key this version does not know
InitSettings ==
    /\ \E base \in {AllDefaultSettings,
                    [AllDefaultSettings EXCEPT
                       !.enabled = FALSE, !.apiType = "gemini", !.maxRetries = 3,
                       !.sendNpcReferences = FALSE,
                       !.npcReferenceImages =
                           <<[name |-> <<"A", "n", "n">>, path |-> 81]>>]
                    @@ [style |-> "anime"]} :
       \E keys \in {DOMAIN base \ gone :
                      gone \in SUBSET {"enabled", "maxRetries", "sendNpcReferences",
                                       "npcReferenceImages"}}
                   \cup {{}, DOMAIN defaultSettings} :
           settings \in {Absent, [key \in keys |-> base[key]]}
    /\ processingMessages = {}
    /\ chat = [m \in MsgIds |-> OtherMessage(m)]
    /\ files = {}
    /\ pass = [p \in PassIds |-> NoPass]
    /\ changes = 0
    /\ ModuleLoaded
    /\ scan = NoScan
    /\ refs = NoRefs

\* a write to settings.npcReferenceImages: an assignment to a key of the
\* object, or a delete; it is seen through every reference to the object
WriteNpcs(entries) ==
    /\ getSettingsCalls.count > 0
    /\ changes < MaxSettingChanges
    /\ settings' = [settings EXCEPT !.npcReferenceImages = entries]
    /\ defaultNpcs' = IF defaultNpcs.shared
                      THEN [defaultNpcs EXCEPT !.entries = entries]
                      ELSE defaultNpcs
    /\ changes' = changes + 1
    /\ UNCHANGED <<processingMessages, chat, files, pass, scan, refs,
                   getSettingsCalls, logBuffer, clock, imageConfig>>

\* the click handler of iig_add_npc for a name that is not empty
AddNpc(name) ==
    LET npcs == settings.npcReferenceImages
        known == \E k \in 1 .. Len(npcs) : npcs[k].name = name
    IN  /\ getSettingsCalls.count > 0
        /\ ~\E k \in 1 .. Len(npcs) : npcs[k].name = name /\ npcs[k].path # NoImage
        /\ WriteNpcs(IF known THEN npcs
                     ELSE Append(npcs, [name |-> name, path |-> NoImage]))

\* the input handler of the path field of an entry of the list
SetNpcPath(k, path) ==
    /\ getSettingsCalls.count > 0
    /\ k \in 1 .. Len(settings.npcReferenceImages)
    /\ WriteNpcs([settings.npcReferenceImages EXCEPT ![k].path = path])

\* the click handler of the delete button of an entry of the list
DeleteNpc(k) ==
    /\ getSettingsCalls.count > 0
    /\ k \in 1 .. Len(settings.npcReferenceImages)
    /\ WriteNpcs(SubSeq(settings.npcReferenceImages, 1, k - 1)
                 \o SubSeq(settings.npcReferenceImages, k + 1,
                           Len(settings.npcReferenceImages)))

NextSettings ==
    \/ GetSettings
    \/ \E b \in BOOLEAN : SetEnabled(b)
    \/ getSettingsCalls.count > 0 /\ \E v \in {0, 1} : SetMaxRetries(v)
    \/ AddNpc(<<"B", "o", "b">>)
    \/ \E k \in 1 .. 2 : SetNpcPath(k, 82)
    \/ \E k \in 1 .. 2 : DeleteNpc(k)

SpecSettings == InitSettings /\ [][NextSettings]_vars

----------------------------------------------------------------------------
(* The log *)

MAX_LOG_ENTRIES == 200

\* the calls of iigLog explored
MaxLogged == 203

\* pop() in place of shift()
iigLogDropsNewest(buffer, entry) ==
    LET pushed == Append(buffer, entry)
    IN  IF Len(pushed) > MAX_LOG_ENTRIES
        THEN SubSeq(pushed, 1, Len(pushed) - 1) ELSE pushed

\* iigLog on the buffer: push, then shift when the buffer is over its size
iigLog(buffer, entry) ==
    LET pushed == Append(buffer, entry)
    IN  IF Len(pushed) > MAX_LOG_ENTRIES THEN Tail(pushed) ELSE pushed

\* one call of iigLog; the entry is written as the number of the call, which
\* orders the entries as their time stamps do
IigLog ==
    /\ clock < MaxLogged
    /\ clock' = clock + 1
    /\ logBuffer' = iigLog(logBuffer, clock + 1)
    /\ UNCHANGED <<settings, processingMessages, chat, files, pass, changes, scan,
                   refs, getSettingsCalls, defaultNpcs, imageConfig>>

InitLog ==
    /\ AtRest
    /\ scan = NoScan
    /\ refs = NoRefs

NextLog == IigLog

SpecLog == InitLog /\ [][NextLog]_vars

----------------------------------------------------------------------------
(* The image configuration of the multimodal-chat request *)

VALID_ASPECT_RATIOS ==
    {"1:1", "2:3", "3:2", "3:4", "4:3", "4:5", "5:4", "9:16", "16:9", "21:9"}
VALID_IMAGE_SIZES == {"1K", "2K", "4K"}

\* requested || stored || universal, without the test of the list
FirstGivenUnchecked(requested, stored, valid, universal) ==
    IF requested # "" THEN requested
    ELSE IF stored # "" THEN stored
    ELSE universal

\* let value = requested || stored || universal; if the list does not
\* include it, the stored value when the list includes that, else the
\* universal default ("": a value that is missing, null or empty)
FirstAllowed(requested, stored, valid, universal) ==
    LET value == IF requested # "" THEN requested
                 ELSE IF stored # "" THEN stored
                 ELSE universal
    IN  IF value \in valid THEN value
        ELSE IF stored \in valid THEN stored
        ELSE universal

\* generateImageGemini up to the body of its request
GeminiRequest(options) ==
    /\ ~imageConfig.sent
    /\ imageConfig' =
           [options |-> options,
            aspectRatio |-> FirstAllowed(options.aspectRatio, settings.aspectRatio,
                                         VALID_ASPECT_RATIOS, "1:1"),
            imageSize |-> FirstAllowed(options.imageSize, settings.imageSize,
                                       VALID_IMAGE_SIZES, "1K"),
            sent |-> TRUE]
    /\ UNCHANGED <<settings, processingMessages, chat, files, pass, changes, scan,
                   refs, getSettingsCalls, logBuffer, clock, defaultNpcs>>

\* values of the list, a value with the wrong letter case, a value that is
\* no ratio, no value
InitImageConfig ==
    /\ \E ratio \in {"1:1", "16:9", "21:9", "16:10", "wide", ""},
          size \in {"1K", "4K", "1k", "8K", ""} :
           settings = [AllDefaultSettings EXCEPT
                         !.apiType = "gemini", !.aspectRatio = ratio,
                         !.imageSize = size]
    /\ processingMessages = {}
    /\ chat = [m \in MsgIds |-> OtherMessage(m)]
    /\ files = {}
    /\ pass = [p \in PassIds |-> NoPass]
    /\ changes = 0
    /\ ModuleLoaded
    /\ scan = NoScan
    /\ refs = NoRefs

NextImageConfig ==
    \E ratio \in {"1:1", "16:9", "21:9", "16:10", "wide", ""},
          size \in {"1K", "4K", "1k", "8K", ""} :
        GeminiRequest([aspectRatio |-> ratio, imageSize |-> size])

SpecImageConfig == InitImageConfig /\ [][NextImageConfig]_vars

----------------------------------------------------------------------------
(* Properties *)

JobIds == {<<p, i>> \in PassIds \X (1 .. 4) : i <= Len(pass[p].jobs)}
JobOf(pi) == pass[pi[1]].jobs[pi[2]]
TagOf(pi) == pass[pi[1]].tags[pi[2]]
TextOf(p) == chat[pass[p].mid].mes

Dispatched(ps) == ps.jobs # <<>>
Failed(job) == job.outcome \in {"error", "uncaught"}

\* C1: under every interleaving of processMessageTags and
\* regenerateMessageImages, at most one pass is active for a message
\* identifier at any time (active: from the start of its scan until it has
\* finished patching and persisting)
C1_OnePassPerMessage ==
    \A p \in PassIds, q \in PassIds :
        (p # q /\ Active(pass[p]) /\ Active(pass[q])) => pass[p].mid # pass[q].mid

\* C2: a processMessageTags invocation that starts while another one for the
\* same message has not completed is a no-op: it dispatches no directive
\* and does not call saveChat
C2_SecondInvocationIsNoOp ==
    \A q \in PassIds :
        (pass[q].kind = "process" /\ pass[q].overlap) =>
            (~Dispatched(pass[q]) /\ pass[q].saved = 0)

\* C3: a pass that put the identifier into the in-flight set and persists the
\* chat removes the identifier only after its saveChat call has completed:
\* while the saveChat of such a pass is in flight the identifier is in the set
C3_MarkerHeldUntilSaved ==
    \A p \in PassIds :
        (pass[p].marked /\ pass[p].pc = "saving") => pass[p].mid \in processingMessages

\* C4: in processMessageTags every directive of the scan is dispatched at
\* once, saveChat is called only when every directive of the batch has
\* resolved, and it is called exactly once per batch
C4_SaveOncePerBatch ==
    \A p \in PassIds :
        (pass[p].kind = "process" /\ Dispatched(pass[p])) =>
            /\ \A i \in 1 .. Len(pass[p].jobs) : pass[p].jobs[i].tpc # "wait"
            /\ pass[p].saved <= 1
            /\ (pass[p].saved = 1 =>
                    \A i \in 1 .. Len(pass[p].jobs) : pass[p].jobs[i].tpc = "resolved")
            /\ (pass[p].pc = "done" => pass[p].saved = 1)

\* C5: when a directive of a batch fails terminally, every directive of the
\* batch still ends with its own outcome, the failing one is patched with an
\* error marker and the batch is persisted
C5_FailureDoesNotAbortSiblings ==
    \A p \in PassIds :
        (pass[p].pc = "done" /\ Dispatched(pass[p])
            /\ \E i \in 1 .. Len(pass[p].jobs) : Failed(pass[p].jobs[i])) =>
            /\ pass[p].saved = 1
            /\ \A i \in 1 .. Len(pass[p].jobs) :
                   /\ pass[p].jobs[i].outcome \in {"ok", "error"}
                   /\ (pass[p].jobs[i].outcome = "error" =>
                          IsErrorMarker(TextOf(p)[pass[p].tags[i].index]))

\* C6: after a pass has completed, every directive of it whose generation
\* failed stands in the message text as an error marker
C6_FailedDirectiveIsErrorMarker ==
    \A pi \in JobIds :
        (pass[pi[1]].pc = "done" /\ Failed(JobOf(pi))) =>
            IsErrorMarker(TextOf(pi[1])[TagOf(pi).index])

\* the classification of the claim, written out
ContainsRetryMarker(msg) ==
    \/ Includes(msg, <<"4", "2", "9">>)
    \/ Includes(msg, <<"5", "0", "2">>)
    \/ Includes(msg, <<"5", "0", "3">>)
    \/ Includes(msg, <<"5", "0", "4">>)
    \/ Includes(msg, <<"t", "i", "m", "e", "o", "u", "t">>)
    \/ Includes(msg, <<"n", "e", "t", "w", "o", "r", "k">>)

RaisedError(job) == job.gen = "raised" /\ job.thrown = "error"

\* C7: with retry count n >= 0 and base delay d, a call whose every attempt
\* fails with a retryable error makes n+1 attempts, sleeps d, 2d, 4d, ...
\* between them (n sleeps, none after the last attempt) and then raises the
\* last error; n = 0: one attempt, no sleep; d = 1000, n = 2: three
\* attempts, delays 1000 and 2000
C7_RetryBackoff ==
    \A pi \in JobIds :
        LET j == JobOf(pi) IN
        /\ (j.tpc = "attempt" => j.attempts = Len(j.sleeps) + 1)
        /\ (j.tpc = "sleep" => j.attempts = Len(j.sleeps))
        /\ \A k \in 1 .. Len(j.sleeps) :
               j.sleeps[k] = IF k = 1 THEN j.baseDelay ELSE 2 * j.sleeps[k - 1]
        /\ (RaisedError(j) /\ ContainsRetryMarker(j.err) /\ j.maxRetries >= 0) =>
               /\ j.attempts = j.maxRetries + 1
               /\ Len(j.sleeps) = j.maxRetries
               /\ (j.maxRetries = 0 => (j.attempts = 1 /\ j.sleeps = <<>>))
               /\ ((j.maxRetries = 2 /\ j.baseDelay = 1000) =>
                       (j.attempts = 3 /\ j.sleeps = <<1000, 2000>>))

C7_Witness ==
    \E pi \in JobIds :
        LET j == JobOf(pi) IN
        /\ RaisedError(j) /\ ContainsRetryMarker(j.err)
        /\ j.maxRetries = 2 /\ j.baseDelay = 1000
        /\ j.attempts = 3 /\ j.sleeps = <<1000, 2000>>

\* C8: a failed attempt is retried iff its error text contains one of the six
\* substrings: a sleep or a further attempt follows only such an error, such
\* an error ends the call only when the budget is used up, and any other
\* error ends the call at once, whatever budget remains
C8_RetryableIffMarker ==
    \A pi \in JobIds :
        LET j == JobOf(pi) IN
        /\ (j.tpc = "sleep" => ContainsRetryMarker(j.err))
        /\ ((j.tpc = "attempt" /\ j.attempt > 0) => ContainsRetryMarker(j.err))
        /\ ((RaisedError(j) /\ ContainsRetryMarker(j.err)) => j.attempt = j.maxRetries)
        /\ ((RaisedError(j) /\ ~ContainsRetryMarker(j.err)) =>
                (j.attempts = j.attempt + 1 /\ Len(j.sleeps) = j.attempt))

C8_Witness ==
    \E pi \in JobIds :
        LET j == JobOf(pi) IN
        /\ RaisedError(j) /\ ~ContainsRetryMarker(j.err)
        /\ j.attempt < j.maxRetries
        /\ j.attempts = 1

\* a 2xx reply in which the adapter finds no image data
LacksImageData(job) ==
    \/ job.lastShape \in {"emptylist", "noimage"}
    \/ job.adapter = "gemini" /\ job.lastShape = "url"

\* C9: a 2xx reply without image data is never retried: for each adapter and
\* each retry count it ends the call, which raises the error
C9_ProtocolErrorRaisedOnce ==
    \A pi \in JobIds :
        LET j == JobOf(pi) IN
        (LacksImageData(j) /\ j.tpc # "attempt") => (j.gen = "raised" /\ j.tpc # "sleep")

\* C10: with the endpoint, the credential or (kind other than custom-REST) the
\* model missing, the call raises before the reference collection and before
\* any backend request, and the one message names every missing field
C10_ConfigurationFailsFast ==
    \A pi \in JobIds :
        LET j == JobOf(pi)
            noEndpoint == j.cfg.endpoint = <<>>
            noKey == j.cfg.apiKey = <<>>
            noModel == j.cfg.apiType # "naistera" /\ j.cfg.model = <<>>
        IN  j.cfg.apiType # "unset" =>
            /\ (j.gen = "config") = (noEndpoint \/ noKey \/ noModel)
            /\ (j.gen = "config" =>
                   /\ ~j.collected
                   /\ j.attempts = 0
                   /\ (noEndpoint => Includes(j.err, ErrEndpoint))
                   /\ (noKey => Includes(j.err, ErrApiKey))
                   /\ (noModel => Includes(j.err, ErrModel)))

C10_Witness ==
    \E pi \in JobIds :
        LET j == JobOf(pi) IN
        /\ j.gen = "config"
        /\ j.cfg.endpoint = <<>> /\ j.cfg.apiKey = <<>> /\ j.cfg.model = <<>>
        /\ j.cfg.apiType = "openai"
        /\ Includes(j.err, ErrEndpoint) /\ Includes(j.err, ErrApiKey) /\ Includes(j.err, ErrModel)
        /\ j.attempts = 0

----------------------------------------------------------------------------
(* Properties of the scanner and of the patcher on character texts *)

Scanning == scan.phase \in {"tagged", "legacy", "scanned"}
TagIds == 1 .. Len(scan.tags)
PatchIds == 1 .. Len(scan.jobs)

\* C11: every directive the scan returns, in both formats, is the region of
\* the scanned text that starts at its recorded offset:
\* text.substring(d.index, d.index + d.fullMatch.length) = d.fullMatch
C11_FullMatchIsRegion ==
    Scanning =>
        \A i \in TagIds :
            LET d == scan.tags[i]
            IN  SubSeq(scan.text, d.index + 1, d.index + Len(d.fullMatch)) = d.fullMatch

\* a scan has returned a TAGGED and a LEGACY directive, one of them not at
\* the start of the text
C11_Witness ==
    /\ scan.phase = "scanned"
    /\ \E i \in TagIds, j \in TagIds :
          /\ scan.tags[i].isNewFormat
          /\ ~scan.tags[j].isNewFormat
          /\ scan.tags[j].index > 0

\* the directive of patch i: a directive of the first scan
BatchTag(i) == IF scan.round = 2 THEN scan.first[i] ELSE scan.tags[i]

\* the patch code of directive i has run (success or failure branch)
Patched(i) == scan.jobs[i].st \in {"ok", "error"} /\ scan.jobs[i].tried

\* C12: with several directives in one message, two of them with the same
\* fullMatch, completing in any order, the outcome of each replaces the
\* region scanned for that directive (the occurrence at its own offset),
\* never the region of another one
C12_PatchHitsOwnRegion ==
    \A i \in PatchIds :
        (Patched(i) /\ scan.jobs[i].hit # -1) => scan.jobs[i].hit = scan.jobs[i].ownAt

\* C13: a patch whose fullMatch no longer occurs in the text leaves the text
\* as it is and raises nothing, and the pass does not end without saving
C13_AbsentFullMatchIsNoOp ==
    \A i \in PatchIds :
        (Patched(i) /\ scan.jobs[i].hit = -1) =>
            /\ scan.jobs[i].after = scan.jobs[i].before
            /\ scan.phase # "failed"

\* the pass has saved the chat after such a patch
C13_Witness ==
    /\ scan.phase = "saved"
    /\ scan.kind = "process"
    /\ \E i \in PatchIds : Patched(i) /\ scan.jobs[i].hit = -1
    /\ \E j \in PatchIds : Patched(j) /\ scan.jobs[j].hit # -1

\* C14: a LEGACY directive that succeeds with stored path P: the text after
\* the patch is the text before the marker, then [IMG:<check>:P], then the
\* text after the marker
C14_LegacySuccessFrame ==
    \A i \in PatchIds :
        LET job == scan.jobs[i]
            d == BatchTag(i)
        IN  (scan.kind = "process" /\ ~d.isNewFormat /\ job.st = "ok") =>
                job.after = SubSeq(job.before, 1, job.ownAt)
                               \o <<"[", "I", "M", "G", ":", "U+2713", ":">>
                               \o job.path \o <<"]">>
                               \o SubSeq(job.before,
                                         job.ownAt + Len(d.fullMatch) + 1,
                                         Len(job.before))

\* the value of the src attribute of an element, as the span between the
\* quotes of its src="..." attribute; NoSpan for an element without one
SrcAttrOpen == <<" ", "s", "r", "c", "=", "\"">>
SrcAttrSpan(element) ==
    LET a == IndexOf(element, SrcAttrOpen, 0)
    IN  IF a = -1 THEN NoSpan
        ELSE [from |-> a + Len(SrcAttrOpen),
              to |-> FirstIn(element, a + Len(SrcAttrOpen), {"\""})]

\* C15: the patch of a TAGGED directive, on success and on failure, changes
\* the value of the src attribute of its element and no other character of
\* the message
C15_TaggedPatchFrame ==
    \A i \in PatchIds :
        LET job == scan.jobs[i]
            d == BatchTag(i)
            span == SrcAttrSpan(d.fullMatch)
            value == IF job.st = "ok" THEN job.path ELSE ERROR_IMAGE_PATH
        IN  (d.isNewFormat /\ Patched(i) /\ job.hit # -1) =>
                job.after =
                    IF span = NoSpan THEN job.before
                    ELSE SubSeq(job.before, 1, job.ownAt + span.from)
                            \o value
                            \o SubSeq(job.before, job.ownAt + span.to + 1,
                                      Len(job.before))

\* C16: a directive returned by the scan of processMessageTags and patched
\* with a successful result is not returned by the scan of the patched text
C16_RoundTrip ==
    scan.phase = "rescanned" =>
        \A i \in PatchIds :
            (scan.kind = "process" /\ scan.jobs[i].st = "ok") =>
                \A j \in TagIds : scan.tags[j].index # scan.jobs[i].own

MalformedUnits ==
    {"TBadJson", "TUnbal", "TNoClose", "TNoImg", "TNoBrace",
     "LUnbal", "LNoBracket", "LBadJson"}
PendingUnits == {"TGen", "TQuote", "TNoSrc", "TBare", "TDollar", "LOk", "LQuote"}

\* the scan has returned the k-th fragment of the text as a directive
Returned(k) ==
    \E j \in TagIds :
        /\ scan.tags[j].index = UnitOffset(scan.units, scan.pad, k)
        /\ scan.tags[j].fullMatch = UnitText(scan.units[k])

\* C17: a malformed candidate is skipped and the scan goes on: a well-formed
\* directive that starts after it is returned
C17_WellFormedAfterMalformed ==
    (scan.phase = "scanned" /\ scan.round = 1) =>
        ((scan.units[1] \in MalformedUnits /\ scan.units[2] \in PendingUnits)
            => Returned(2))

\* C18: a text whose only candidate has unbalanced braces yields no
\* directive and a parse diagnostic in the log
C18_UnbalancedIsLogged ==
    (scan.phase = "done" /\ scan.round = 1
        /\ scan.units \in {<<"TUnbal", "Empty">>, <<"Empty", "TUnbal">>,
                           <<"LUnbal", "Empty">>, <<"Empty", "LUnbal">>}) =>
        /\ scan.tags = <<>>
        /\ \E k \in 1 .. Len(scan.log) : scan.log[k] = "WARN parse"

QuotedBraceUnits == {"TQuote", "LQuote"}
PlainUnits ==
    {"TGen", "TQuote", "TNoSrc", "TBare", "TFile", "TError", "TDollar",
     "LOk", "LQuote", "Empty"}
QuotedBracePrompt(u) ==
    IF u = "TQuote" THEN <<"a", " ", "\"", " ", "}", " ", "b">>
    ELSE <<"c", " ", "\"", " ", "}", " ", "d">>

\* C19: braces inside a double-quoted string of the payload, also after an
\* escaped quote, do not end the payload: the directive is returned whole,
\* with the prompt its payload holds
C19_BraceScanIsStringAware ==
    (scan.phase = "scanned" /\ scan.round = 1) =>
        \A k \in 1 .. 2 :
            (scan.units[k] \in QuotedBraceUnits /\ scan.units[3 - k] \in PlainUnits) =>
                \E j \in TagIds :
                    /\ scan.tags[j].index = UnitOffset(scan.units, scan.pad, k)
                    /\ scan.tags[j].fullMatch = UnitText(scan.units[k])
                    /\ scan.tags[j].prompt = QuotedBracePrompt(scan.units[k])

\* both formats with a brace in a quoted string have been returned
C19_Witness ==
    /\ scan.phase = "scanned"
    /\ scan.round = 1
    /\ scan.units = <<"LQuote", "TQuote">>
    /\ Len(scan.tags) = 2

----------------------------------------------------------------------------
(* Properties of reference collection *)

\* the generated images of the history outside the current message
PriorIds ==
    UNION {{refs.history[m][k].id : k \in {j \in 1 .. Len(refs.history[m]) :
                                              refs.history[m][j].generated}} :
              m \in {n \in 1 .. Len(refs.history) : n - 1 # refs.current}}

\* index of the message that holds an image
MessageOf(id) == id \div 10

\* style is the oldest prior image; previous holds the newest prior images
\* other than style, newest first, as many as the cap (at most 4) and the
\* history allow
StyleOldestPreviousNewest ==
    LET r == refs.result
        n == Min(Min(refs.cfg.maxPreviousImages, 4), Cardinality(PriorIds) - 1)
        shown == {r.previous[k] : k \in 1 .. Len(r.previous)}
    IN  /\ r.style \in PriorIds
        /\ \A id \in PriorIds : MessageOf(r.style) <= MessageOf(id)
        /\ Len(r.previous) = n
        /\ Cardinality(shown) = n
        /\ shown \subseteq PriorIds \ {r.style}
        /\ \A k \in 1 .. Len(r.previous), l \in 1 .. Len(r.previous) :
              k < l => MessageOf(r.previous[k]) >= MessageOf(r.previous[l])
        /\ \A id \in PriorIds \ (shown \cup {r.style}) :
              \A k \in 1 .. Len(r.previous) :
                  MessageOf(id) <= MessageOf(r.previous[k])

BothEnabled ==
    /\ refs.phase = "collected"
    /\ refs.cfg.sendStyleReference
    /\ refs.cfg.sendPreviousImages
    /\ PriorIds # {}

----------------------------------------------------------------------------
(* Properties of the adapters and of the backend selection *)

\* C25: an adapter never returns normally without an image payload (inline
\* data or a URL), and a success response without recoverable image data
\* makes it raise: every call that returned holds a payload, and no call
\* returned from a reply that lacks image data
C25_AdapterRaisesOrReturnsImage ==
    \A pi \in JobIds :
        LET j == JobOf(pi) IN
        /\ (j.gen = "returned" => j.payload \in {"data", "url"})
        /\ (j.lastShape \in {"emptylist", "noimage"} /\ j.tpc # "attempt"
                => j.gen # "returned")

\* "nano-banana" occurs in the identifier in any letter case
HasNanoBananaAnyCase(model) ==
    LET lower == <<"n", "a", "n", "o", "-", "b", "a", "n", "a", "n", "a">>
        upper == <<"N", "A", "N", "O", "-", "B", "A", "N", "A", "N", "A">>
    IN  \E k \in 0 .. (Len(model) - 11) :
            \A j \in 1 .. 11 : model[k + j] \in {lower[j], upper[j]}

\* C27: the adapter of an attempt is a function of (backend kind, model):
\* custom-REST when the kind is naistera; otherwise multimodal-chat when the
\* kind is gemini or the model identifier contains nano-banana in any letter
\* case; otherwise generic-REST; an attempt has exactly one adapter
C27_BackendSelection ==
    \A pi \in JobIds :
        LET j == JobOf(pi) IN
        j.tpc = "attempt" =>
            /\ j.adapter \in {"naistera", "gemini", "openai"}
            /\ (j.adapter = "naistera") = (settings.apiType = "naistera")
            /\ (j.adapter = "gemini") =
                   (settings.apiType # "naistera"
                    /\ (settings.apiType = "gemini"
                        \/ HasNanoBananaAnyCase(settings.model)))

\* a generic-REST configuration whose model is written "Nano-Banana-Pro"
C27_Witness ==
    \E pi \in JobIds :
        LET j == JobOf(pi) IN
        /\ j.tpc = "attempt" /\ j.adapter = "gemini"
        /\ settings.apiType = "openai" /\ settings.model = ModelNano

----------------------------------------------------------------------------
(* Properties of the decision of the TAGGED scan *)

\* the TAGGED fragments with a payload JSON.parse accepts
ParseableTagged ==
    {"TGen", "TQuote", "TNoSrc", "TBare", "TFile", "TError", "TDollar",
     "TShort", "TRelative", "TOtherMarker"}

\* the other fragment leaves the element alone
Standalone(k) ==
    /\ scan.units[k] \in ParseableTagged
    /\ scan.units[3 - k] \in ParseableTagged \cup {"LOk", "LQuote", "Empty"}

\* the src value a fragment is written with (empty: no src, or src="")
WrittenSrc(u) ==
    CASE u \in {"TGen", "TBare", "TDollar"} ->
            <<"[", "I", "M", "G", ":", "G", "E", "N", "]">>
      [] u = "TFile" -> StoredPath(9)
      [] u = "TError" -> ERROR_IMAGE_PATH
      [] u = "TShort" -> <<"/", "a", ".", "p">>
      [] u = "TRelative" -> <<"a", ".", "p", "n", "g">>
      [] u = "TOtherMarker" -> <<"[", "I", "M", "G", ":", "X", "]">>
      [] OTHER -> <<>>

ServerRelative(src) == src # <<>> /\ src[1] = "/"

\* C28: a TAGGED element with parseable JSON is returned exactly when
\* force-all is set, or its src is empty or contains the pending-generation
\* marker, or existence-checking is enabled, its src is a server-relative
\* path and the HEAD request for it answers not-found; with existence-checking
\* disabled and force-all not set an element whose src is a server-relative
\* path is not returned
C28_NeedsGeneration ==
    (scan.phase = "scanned" /\ scan.round = 1) =>
        \A k \in 1 .. 2 :
            Standalone(k) =>
                LET src == WrittenSrc(scan.units[k]) IN
                /\ Returned(k) =
                      \/ scan.forceAll
                      \/ src = <<>>
                      \/ Includes(src, <<"[", "I", "M", "G", ":", "G", "E", "N", "]">>)
                      \/ (scan.checkExistence /\ ServerRelative(src)
                             /\ src \in scan.lost)
                /\ (ServerRelative(src) /\ ~scan.checkExistence /\ ~scan.forceAll)
                      => ~Returned(k)

\* C28 as the scan decides: without force-all an src that contains
\* "error.svg" is never returned; the marker test is "[IMG:"; a path starts
\* with "/" and is longer than 5 characters
C28_NeedsGenerationAsDecided ==
    (scan.phase = "scanned" /\ scan.round = 1) =>
        \A k \in 1 .. 2 :
            Standalone(k) =>
                LET src == WrittenSrc(scan.units[k]) IN
                /\ Returned(k) =
                      \/ scan.forceAll
                      \/ /\ ~Includes(src, <<"e", "r", "r", "o", "r", ".", "s", "v", "g">>)
                         /\ \/ src = <<>>
                            \/ Includes(src, <<"[", "I", "M", "G", ":">>)
                            \/ (scan.checkExistence /\ ServerRelative(src)
                                   /\ Len(src) > 5 /\ src \in scan.lost)
                /\ (ServerRelative(src) /\ ~scan.checkExistence /\ ~scan.forceAll)
                      => ~Returned(k)

\* an automatic scan has returned an element whose file is gone and left
\* the error sentinel alone
C28_Witness ==
    /\ scan.phase = "scanned" /\ scan.round = 1
    /\ scan.kind = "process"
    /\ scan.units = <<"TFile", "TError">>
    /\ scan.lost = PathsOfTexts
    /\ Returned(1) /\ ~Returned(2)

\* the failed directive i of the pass was patched, at its own element
PatchedWithSentinel(i) ==
    /\ BatchTag(i).isNewFormat
    /\ scan.jobs[i].st = "error" /\ scan.jobs[i].tried
    /\ scan.jobs[i].hit = scan.jobs[i].ownAt
    /\ scan.jobs[i].after # scan.jobs[i].before

C30_TaggedThenLegacyInOrder ==
    \A i \in TagIds, j \in TagIds :
        i < j =>
            /\ ~(~scan.tags[i].isNewFormat /\ scan.tags[j].isNewFormat)
            /\ (scan.tags[i].isNewFormat = scan.tags[j].isNewFormat
                    => scan.tags[i].index < scan.tags[j].index)
            /\ scan.tags[i] # scan.tags[j]

----------------------------------------------------------------------------
(* Properties of a call under reconfiguration *)

\* a further attempt of a call goes to the adapter of the attempt before
SameAdapterOnRetry ==
    \A p \in PassIds, i \in 1 .. 4 :
        (/\ i <= Len(pass[p].jobs) /\ i <= Len(pass'[p].jobs)
         /\ pass[p].jobs[i].attempts >= 1
         /\ pass'[p].jobs[i].attempts = pass[p].jobs[i].attempts + 1)
            => pass'[p].jobs[i].adapter = pass[p].jobs[i].adapter

\* the adapter of the attempt in flight is handed the list filled for it
ListOfAdapter ==
    \A pi \in JobIds :
        LET j == JobOf(pi) IN
        j.tpc = "attempt" =>
            /\ (j.adapter = "naistera" => j.built.referenceDataUrls)
            /\ (j.adapter = "gemini" => j.built.referenceImages)
            /\ (j.adapter = "openai" => ~j.built.referenceImages)

\* C26: the backend variant is chosen once per generation call: every retry
\* attempt of a call goes to the same adapter, and the reference list is the
\* one built for that adapter, also when the kind or the model is changed
\* while the call waits for the references or sleeps before a retry
C26_BackendChosenOncePerCall == [][SameAdapterOnRetry /\ ListOfAdapter']_vars


\* the candidates of the chosen adapter in the order of their priority:
\* the avatars that are enabled and were retrieved, the style reference,
\* the previous images, the images of the named entities
Candidates ==
    LET naistera == refs.adapter = "naistera"
        sendChar == IF naistera THEN refs.cfg.naisteraSendCharAvatar
                    ELSE refs.cfg.sendCharAvatar
        sendUser == IF naistera THEN refs.cfg.naisteraSendUserAvatar
                    ELSE refs.cfg.sendUserAvatar
    IN  (IF sendChar /\ CharAvatar \notin refs.unreachable
         THEN <<CharAvatar>> ELSE <<>>)
        \o (IF sendUser /\ UserAvatar \notin refs.unreachable
            THEN <<UserAvatar>> ELSE <<>>)
        \o (IF refs.result.style # NoImage THEN <<refs.result.style>> ELSE <<>>)
        \o refs.result.previous
        \o refs.result.npcs

\* 1 character avatar, 2 user avatar, 3 style reference, 4 previous image,
\* 5 image of a named entity
PriorityOf(image) ==
    IF image = CharAvatar THEN 1
    ELSE IF image = UserAvatar THEN 2
    ELSE IF image = refs.result.style THEN 3
    ELSE IF \E k \in 1 .. Len(refs.result.previous) :
                refs.result.previous[k] = image THEN 4
    ELSE 5

\* C21: no request carries more than 4 reference images; the list of the
\* multimodal-chat adapter and of the custom-REST adapter is in the order
\* character avatar, user avatar, style reference, previous images,
\* named-entity images, and it is the first 4 of the candidates in that
\* order when there are more than 4, all of them otherwise.
C21_ReferenceOrderAndCap ==
    refs.phase = "attempt" =>
        /\ Len(refs.request) <= 4
        /\ refs.adapter \in {"gemini", "naistera"} =>
            /\ refs.request = SubSeq(Candidates, 1, Min(4, Len(Candidates)))
            /\ \A i \in 1 .. Len(refs.request), j \in 1 .. Len(refs.request) :
                   i < j => PriorityOf(refs.request[i]) < PriorityOf(refs.request[j])
                            \/ /\ PriorityOf(refs.request[i]) = PriorityOf(refs.request[j])
                               /\ PriorityOf(refs.request[i]) >= 4

\* more candidates than the request takes, of all five kinds
C21_Witness ==
    /\ refs.phase = "attempt"
    /\ refs.adapter = "gemini"
    /\ Len(Candidates) > 4
    /\ Len(refs.request) = 4
    /\ refs.result.npcs # <<>>
    /\ refs.result.previous # <<>>
    /\ refs.request[1] = CharAvatar

\* C22: a reference whose retrieval failed is not in the collected
\* references nor in the request; the other references are the ones
\* collected when nothing fails, in the same order, and the attempt is made.
C22_FailedReferenceAloneOmitted ==
    refs.phase = "attempt" =>
        LET failed == refs.unreachable \cup refs.notFound
            retrieved(image) == image \notin failed
            clean == collectReferenceImages(refs.history, refs.current, refs.cfg,
                                            {}, refs.prompt)
        IN  /\ refs.adapter # "none"
            /\ refs.result.previous = SelectSeq(clean.previous, retrieved)
            /\ refs.result.npcs = SelectSeq(clean.npcs, retrieved)
            /\ refs.result.style =
                   (IF clean.style \in failed THEN NoImage ELSE clean.style)
            /\ \A k \in 1 .. Len(refs.request) : refs.request[k] \notin failed

\* C23: the call of getSettings returns the defaults when the slot was
\* empty; otherwise every key the record had keeps its value and every key
\* of the defaults it lacked has its default; the returned record has every
\* key of the defaults, and a call after the first returns what it found.
C23_GetSettingsFillsMissingKeys ==
    getSettingsCalls.count > 0 =>
        LET before == getSettingsCalls.before
            returned == getSettingsCalls.returned
            had == IF before = Absent THEN {} ELSE DOMAIN before
        IN  /\ before = Absent => returned = AllDefaultSettings
            /\ \A key \in had : key \in DOMAIN returned /\ returned[key] = before[key]
            /\ \A key \in DOMAIN AllDefaultSettings :
                   /\ key \in DOMAIN returned
                   /\ key \notin had => returned[key] = AllDefaultSettings[key]
            /\ DOMAIN returned = had \cup DOMAIN AllDefaultSettings
            /\ getSettingsCalls.count >= 2 => returned = before

\* a record with a chosen value and without one of the keys went in
C23_Witness ==
    /\ getSettingsCalls.count = 1
    /\ getSettingsCalls.before # Absent
    /\ "maxRetries" \in DOMAIN getSettingsCalls.before
    /\ getSettingsCalls.before.maxRetries = 3
    /\ "npcReferenceImages" \notin DOMAIN getSettingsCalls.before
    /\ getSettingsCalls.returned.maxRetries = 3
    /\ getSettingsCalls.returned.npcReferenceImages = <<>>

\* C24: the log holds the entries of the last 200 calls of iigLog, or of
\* all calls when there were fewer, in the order of the calls.
C24_LogHoldsLatestEntries ==
    /\ Len(logBuffer) = Min(clock, 200)
    /\ \A i \in 1 .. Len(logBuffer) : logBuffer[i] = clock - Len(logBuffer) + i

\* the 201st entry has arrived and the first is gone
C24_Witness ==
    /\ clock = 201
    /\ Len(logBuffer) = 200
    /\ logBuffer[1] = 2
    /\ logBuffer[200] = 201

----------------------------------------------------------------------------
(* Properties of the retry count *)

\* C37: the input handler of the retry count stores the integer entered, for
\* every entry from 0 to 5; entering 0 stores 0
C37_RetryCountStoredAsEntered ==
    [][\A v \in 0 .. 5 : SetMaxRetries(v) => settings'.maxRetries = v]_vars

\* C38: for every stored retry count a call with valid configuration makes
\* at least one backend attempt and ends by returning or by raising the
\* error of its last attempt; it never raises undefined, and the catch of
\* the caller never fails on the value raised
C38_CallAttemptsAtLeastOnce ==
    \A pi \in JobIds :
        LET j == JobOf(pi) IN
        /\ j.thrown # "undefined"
        /\ j.outcome # "uncaught"
        /\ (j.tpc \notin {"wait", "collect"} /\ j.gen # "config") => j.attempts >= 1

----------------------------------------------------------------------------
(* Properties of the defaults *)

\* C36: no call of getSettings and no change of a setting changes a value
\* of the default record: defaultSettings always holds the values written
\* in the source, and so does a record created from it
C36_DefaultsNeverChange ==
    /\ CurrentDefaults = AllDefaultSettings
    /\ getSettings(Absent, CurrentDefaults) = AllDefaultSettings

----------------------------------------------------------------------------
(* Properties of the image configuration *)

\* C31: the aspect ratio and the resolution tier of the request are members
\* of the allow-lists: the value of the directive when the list holds it,
\* else the stored value when the list holds that, else 1:1 and 1K
C31_ImageConfigAllowed ==
    imageConfig.sent =>
        LET ratios == {"1:1", "2:3", "3:2", "3:4", "4:3", "4:5", "5:4", "9:16",
                       "16:9", "21:9"}
            sizes == {"1K", "2K", "4K"}
            asked == imageConfig.options
        IN  /\ imageConfig.aspectRatio \in ratios
            /\ imageConfig.imageSize \in sizes
            /\ imageConfig.aspectRatio =
                   (IF asked.aspectRatio \in ratios THEN asked.aspectRatio
                    ELSE IF settings.aspectRatio \in ratios THEN settings.aspectRatio
                    ELSE "1:1")
            /\ imageConfig.imageSize =
                   (IF asked.imageSize \in sizes THEN asked.imageSize
                    ELSE IF settings.imageSize \in sizes THEN settings.imageSize
                    ELSE "1K")

\* an invalid ratio asked for falls back to the stored one; a missing tier
\* with an invalid stored one falls back to 1K
C31_Witness ==
    /\ imageConfig.sent
    /\ imageConfig.options.aspectRatio = "16:10"
    /\ settings.aspectRatio = "21:9"
    /\ imageConfig.aspectRatio = "21:9"
    /\ imageConfig.options.imageSize = ""
    /\ settings.imageSize = "1k"
    /\ imageConfig.imageSize = "1K"

----------------------------------------------------------------------------
(* Properties of the history scan *)

\* the generated images of the message that is being processed
CurrentIds ==
    {refs.history[refs.current + 1][k].id :
        k \in {j \in 1 .. Len(refs.history[refs.current + 1]) :
                  refs.history[refs.current + 1][j].generated}}

\* C32: no reference comes from the message that is being processed: the
\* style reference and every previous image belong to another message, and
\* every other message is visited (a generated image of another message
\* that can be retrieved gives a style reference)
C32_CurrentMessageLeftOut ==
    refs.phase = "collected" =>
        /\ refs.result.style \notin CurrentIds
        /\ \A k \in 1 .. Len(refs.result.previous) :
               /\ refs.result.previous[k] \notin CurrentIds
               /\ MessageOf(refs.result.previous[k]) # refs.current
        /\ (refs.cfg.sendStyleReference /\ PriorIds \ refs.unreachable # {}
                /\ refs.unreachable \cap PriorIds = {})
               => (refs.result.style # NoImage
                   /\ MessageOf(refs.result.style) # refs.current)

\* the message in the middle of the history is processed; it holds images,
\* and so do the messages before and after it
C32_Witness ==
    /\ refs.phase = "collected"
    /\ CurrentIds # {}
    /\ refs.current > 0
    /\ refs.current < Len(refs.history) - 1
    /\ refs.result.style # NoImage
    /\ MessageOf(refs.result.style) < refs.current
    /\ Len(refs.result.previous) >= 1
    /\ MessageOf(refs.result.previous[1]) > refs.current

----------------------------------------------------------------------------
(* Properties of the loops of the scan *)

\* C33: parseImageTags terminates on every text: while a loop runs, its
\* search position never passes the end of the text, and the iteration the
\* loop is about to make either ends the loop or moves the search position
\* strictly forward, whatever path it takes
C33_EveryIterationAdvances ==
    /\ scan.phase \in {"tagged", "legacy"} => scan.pos <= Len(scan.text)
    /\ scan.phase = "tagged" =>
           (TaggedStep(scan).phase = "legacy" \/ TaggedStep(scan).pos > scan.pos)
    /\ scan.phase = "legacy" =>
           (LegacyStep(scan).phase = "scanned" \/ LegacyStep(scan).pos > scan.pos)

\* the scan has ended on a text of two rejected candidates: nothing was
\* returned and nothing was logged
C33_Witness ==
    /\ scan.phase = "scanned"
    /\ scan.units[1] \in {"TNoImg", "TNoBrace", "TUnbal", "TNoClose"}
    /\ scan.units[2] \in {"LUnbal", "LNoBracket"}
    /\ scan.tags = <<>>
    /\ scan.log = <<>>

----------------------------------------------------------------------------
(* Properties of the batch of one message *)

\* the regions of the directives of the batch, as scanned, do not overlap
RegionsApart ==
    \A i, j \in PatchIds :
        i < j => \/ BatchTag(i).index + Len(BatchTag(i).fullMatch) <= BatchTag(j).index
                 \/ BatchTag(j).index + Len(BatchTag(j).fullMatch) <= BatchTag(i).index

\* what the patch of directive i writes in the place of its fullMatch
OutcomeText(i) ==
    IF scan.jobs[i].st = "ok"
    THEN PatchSuccessText(BatchTag(i).fullMatch, BatchTag(i), scan.jobs[i].path)
    ELSE PatchErrorText(BatchTag(i).fullMatch, BatchTag(i), <<"b", "o", "o", "m">>)

\* C34: when the directives of a batch of processMessageTags have regions
\* that do not overlap, then in whatever order they complete, the text that
\* is saved holds what the patch of every one of them wrote
C34_NoPatchIsLost ==
    (scan.phase = "saved" /\ scan.kind = "process" /\ RegionsApart) =>
        \A i \in PatchIds : Includes(scan.text, OutcomeText(i))

\* two directives, the second completed before the first, one with an
\* image and one with an error
C34_Witness ==
    /\ scan.phase = "saved"
    /\ scan.kind = "process"
    /\ RegionsApart
    /\ Len(scan.jobs) = 2
    /\ scan.jobs[1].before = scan.jobs[2].after
    /\ scan.jobs[2].after # scan.jobs[2].before
    /\ scan.jobs[1].after # scan.jobs[1].before
    /\ {scan.jobs[1].st, scan.jobs[2].st} = {"ok", "error"}

----------------------------------------------------------------------------
(* Properties of the in-flight set *)

\* C35: the in-flight marker never leaks: a message identifier is in the
\* in-flight set only while a pass that added it is still running, so that
\* every pass that ends, on whatever path, has removed what it added
C35_MarkerNeverLeaks ==
    \A m \in processingMessages :
        \E p \in PassIds : pass[p].marked /\ pass[p].mid = m /\ Active(pass[p])

====
